---- MODULE Spec2Model ----
(***************************************************************************)
(* A model of leak-secure-mcp: the circuit breaker, the token-bucket rate  *)
(* limiter, the retry wrapper, the GitHub tree fetcher, the secret         *)
(* detector and the repository-scan handler.                               *)
(*                                                                         *)
(* JavaScript runs the program on one thread: code between two awaits is   *)
(* atomic, and each action below is one such stretch of code.  Each        *)
(* component has its own specification (SpecBreaker, SpecRetry, ...); the  *)
(* variables of the other components stay at their initial values.         *)
(* Times are in milliseconds, as returned by Date.now().                   *)
(***************************************************************************)
EXTENDS Integers, Sequences, FiniteSets, TLC

VARIABLES
    now,        \* Date.now()
    breaker,    \* the CircuitBreaker singleton's fields
    calls,      \* the execute() calls in flight, one slot per caller
    hist,       \* history of the breaker, kept for the properties only
    rt,         \* one run of retry(fn, options)
    buckets,    \* RateLimiter.buckets: key -> TokenBucket
    waits,      \* the waitForToken() calls in flight, one slot per caller
    lhist,      \* history of the rate limiter, kept for the properties only
    sc,         \* one call of SecretDetector.scan
    tasks,      \* the getFilesRecursive and getFileContent calls, one per path
    files,      \* the files array of getRepositoryFiles
    scanCall,   \* one call of handleScanRepository
    fhist,      \* history of the fetch, kept for the properties only
    scans,      \* secretDetector.scan(content, path) of each file of the repository
    an,         \* one SecurityAnalyzer.analyze(results) and the result set it was given
    srv         \* the server process: isShuttingDown, the tool calls, the exit

vars == <<now, breaker, calls, hist, rt, buckets, waits, lhist, sc, tasks, files, scanCall, fhist, scans, an, srv>>

\* The variables each specification leaves alone.
othersBreaker == <<rt, buckets, waits, lhist, sc, tasks, files, scanCall, fhist, scans, an, srv>>
othersRetry == <<now, breaker, calls, hist, buckets, waits, lhist, sc, tasks, files, scanCall, fhist, scans, an, srv>>
othersLimiter == <<breaker, calls, hist, rt, sc, tasks, files, scanCall, fhist, scans, an, srv>>

Min(a, b) == IF a <= b THEN a ELSE b
Max(a, b) == IF a >= b THEN a ELSE b

(***************************************************************************)
(* Configuration (src/src/utils/config.ts), at its default values.         *)
(***************************************************************************)
GITHUB_REQUEST_TIMEOUT == 30000
CIRCUIT_BREAKER_THRESHOLD == 5
CIRCUIT_BREAKER_TIMEOUT == 60000

(***************************************************************************)
(* Bounds of the model.                                                    *)
(***************************************************************************)
NumCallers == 2       \* concurrent callers of execute()
MaxBreakerTicks == 3  \* clock steps of the breaker specification
MaxFailures == 7      \* no new execute() once failureCount has reached this

Callers == 1..NumCallers

NumWaiters == 1       \* concurrent callers of waitForToken()
Waiters == 1..NumWaiters

\* The clock starts well after the epoch, as Date.now() does.
ClockStart == CIRCUIT_BREAKER_TIMEOUT

(***************************************************************************)
(* CircuitBreaker (circuitBreaker.ts)                                      *)
(***************************************************************************)
failureThreshold == CIRCUIT_BREAKER_THRESHOLD
resetTimeout == CIRCUIT_BREAKER_TIMEOUT
timeout == GITHUB_REQUEST_TIMEOUT

BreakerInit ==
    [state |-> "CLOSED", failureCount |-> 0, successCount |-> 0, lastFailureTime |-> 0]

\* An entry check that lets one probe through: HALF_OPEN rejects.
AdmitsOneProbe(b, t) ==
    b.state = "CLOSED" \/ (b.state = "OPEN" /\ t - b.lastFailureTime >= resetTimeout)

\* The entry of execute(): TRUE when the call is admitted and fn is invoked,
\* FALSE when it throws CircuitBreakerError.
Admits(b, t) ==
    b.state # "OPEN" \/ t - b.lastFailureTime >= resetTimeout

\* The breaker after the entry check of execute().
AfterEntry(b, t) ==
    IF b.state = "OPEN" /\ t - b.lastFailureTime >= resetTimeout
    THEN [b EXCEPT !.state = "HALF_OPEN", !.successCount = 0]
    ELSE b

\* onSuccess closing on the first success of HALF_OPEN.
onSuccessFirst(b) ==
    LET b1 == [b EXCEPT !.failureCount = 0] IN
    IF b1.state = "HALF_OPEN"
    THEN [b1 EXCEPT !.successCount = b1.successCount + 1, !.state = "CLOSED"]
    ELSE b1

\* onSuccess that leaves failureCount as it is.
onSuccessKeepsCount(b) ==
    IF b.state = "HALF_OPEN"
    THEN LET b2 == [b EXCEPT !.successCount = b.successCount + 1] IN
         IF b2.successCount >= failureThreshold
         THEN [b2 EXCEPT !.state = "CLOSED"]
         ELSE b2
    ELSE b

\* onSuccess that closes the breaker from OPEN as from HALF_OPEN.
onSuccessClosesOpen(b) ==
    LET b1 == [b EXCEPT !.failureCount = 0] IN
    IF b1.state # "CLOSED"
    THEN LET b2 == [b1 EXCEPT !.successCount = b1.successCount + 1] IN
         IF b2.successCount >= failureThreshold
         THEN [b2 EXCEPT !.state = "CLOSED"]
         ELSE b2
    ELSE b1

\* onSuccess that resets failureCount in CLOSED only.
onSuccessStaleCount(b) ==
    IF b.state = "HALF_OPEN"
    THEN LET b2 == [b EXCEPT !.successCount = b.successCount + 1] IN
         IF b2.successCount >= failureThreshold
         THEN [b2 EXCEPT !.state = "CLOSED"]
         ELSE b2
    ELSE [b EXCEPT !.failureCount = 0]

onSuccess(b) ==
    LET b1 == [b EXCEPT !.failureCount = 0] IN
    IF b1.state = "HALF_OPEN"
    THEN LET b2 == [b1 EXCEPT !.successCount = b1.successCount + 1] IN
         IF b2.successCount >= failureThreshold
         THEN [b2 EXCEPT !.state = "CLOSED"]
         ELSE b2
    ELSE b1

\* onFailure without the HALF_OPEN branch: only the threshold opens.
onFailureByCount(b, t) ==
    LET b1 == [b EXCEPT !.failureCount = b.failureCount + 1, !.lastFailureTime = t] IN
    IF b1.failureCount >= failureThreshold
    THEN [b1 EXCEPT !.state = "OPEN"]
    ELSE b1

\* onFailure with the threshold test off by one.
onFailureLate(b, t) ==
    LET b1 == [b EXCEPT !.failureCount = b.failureCount + 1, !.lastFailureTime = t] IN
    IF b1.state = "HALF_OPEN"
    THEN [b1 EXCEPT !.state = "OPEN"]
    ELSE IF b1.failureCount > failureThreshold
         THEN [b1 EXCEPT !.state = "OPEN"]
         ELSE b1

onFailure(b, t) ==
    LET b1 == [b EXCEPT !.failureCount = b.failureCount + 1, !.lastFailureTime = t] IN
    IF b1.state = "HALF_OPEN"
    THEN [b1 EXCEPT !.state = "OPEN"]
    ELSE IF b1.failureCount >= failureThreshold
         THEN [b1 EXCEPT !.state = "OPEN"]
         ELSE b1

reset(b) ==
    [state |-> "CLOSED", failureCount |-> 0, successCount |-> 0, lastFailureTime |-> 0]

\* One slot per caller: pc is "idle" (no call), "running" (fn invoked, race
\* undecided), "orphan" (the timer won the race, fn still running) or "done".
CallInit == [pc |-> "idle", start |-> 0, result |-> "none", invoked |-> FALSE]

\* consecFails: failed execute() calls in a row; halfOpenSuccesses: execute()
\* calls that succeeded while HALF_OPEN since the breaker last entered it;
\* closedFails: execute() calls that failed since the breaker was last made
\* CLOSED, counted up to failureThreshold and while it stays CLOSED.
HistInit == [consecFails |-> 0, halfOpenSuccesses |-> 0, closedFails |-> 0]

\* closedFails after a failed call that takes the breaker from b to b1.
ClosedFailsAfter(b, b1, n) ==
    IF b.state = "CLOSED" /\ b1.state = "CLOSED" THEN Min(n + 1, failureThreshold) ELSE 0

\* execute(fn), up to the await of the race.
ExecuteEnter(c) ==
    /\ calls[c].pc = "idle"
    /\ breaker.failureCount < MaxFailures
    /\ breaker' = AfterEntry(breaker, now)
    /\ calls' = [calls EXCEPT ![c] =
         IF Admits(breaker, now)
         THEN [pc |-> "running", start |-> now, result |-> "none", invoked |-> TRUE]
         ELSE [pc |-> "done", start |-> 0, result |-> "CircuitBreakerError",
               invoked |-> FALSE]]
    /\ hist' = IF breaker.state = "OPEN" /\ Admits(breaker, now)
               THEN [hist EXCEPT !.halfOpenSuccesses = 0]
               ELSE hist
    /\ UNCHANGED now
    /\ UNCHANGED othersBreaker

\* fn() resolves before the timer: onSuccess(), the result is returned.
ExecuteSucceed(c) ==
    /\ calls[c].pc = "running"
    /\ breaker' = onSuccess(breaker)
    /\ calls' = [calls EXCEPT ![c].pc = "done", ![c].start = 0, ![c].result = "ok"]
    /\ hist' = [hist EXCEPT !.consecFails = 0,
                            !.halfOpenSuccesses =
                                IF breaker.state = "HALF_OPEN" THEN @ + 1 ELSE @]
    /\ UNCHANGED now
    /\ UNCHANGED othersBreaker

\* fn() rejects before the timer: onFailure(), the error is rethrown.
ExecuteFail(c) ==
    /\ calls[c].pc = "running"
    /\ breaker' = onFailure(breaker, now)
    /\ calls' = [calls EXCEPT ![c].pc = "done", ![c].start = 0, ![c].result = "error"]
    /\ hist' = [hist EXCEPT !.consecFails = hist.consecFails + 1,
                            !.closedFails = ClosedFailsAfter(breaker, breaker', @)]
    /\ UNCHANGED now
    /\ UNCHANGED othersBreaker

\* The timer of the race fires first and TimeoutError is thrown without
\* onFailure().
ExecuteTimeoutUncounted(c) ==
    /\ calls[c].pc = "running"
    /\ now - calls[c].start >= timeout
    /\ calls' = [calls EXCEPT ![c].pc = "orphan", ![c].start = 0, ![c].result = "TimeoutError"]
    /\ UNCHANGED <<now, breaker, hist>>
    /\ UNCHANGED othersBreaker

\* The timer of the race fires first: onFailure(), TimeoutError is thrown;
\* fn is not cancelled.
ExecuteTimeout(c) ==
    /\ calls[c].pc = "running"
    /\ now - calls[c].start >= timeout
    /\ breaker' = onFailure(breaker, now)
    /\ calls' = [calls EXCEPT ![c].pc = "orphan", ![c].start = 0, ![c].result = "TimeoutError"]
    /\ hist' = [hist EXCEPT !.consecFails = hist.consecFails + 1,
                            !.closedFails = ClosedFailsAfter(breaker, breaker', @)]
    /\ UNCHANGED now
    /\ UNCHANGED othersBreaker

\* fn() settles after it lost the race: nothing awaits it any more.
LateSettle(c) ==
    /\ calls[c].pc = "orphan"
    /\ calls' = [calls EXCEPT ![c].pc = "done"]
    /\ UNCHANGED <<now, breaker, hist>>
    /\ UNCHANGED othersBreaker

\* The caller has its result; the slot is free for the next call.
ExecuteReturn(c) ==
    /\ calls[c].pc = "done"
    /\ calls' = [calls EXCEPT ![c] = CallInit]
    /\ UNCHANGED <<now, breaker, hist>>
    /\ UNCHANGED othersBreaker

BreakerReset ==
    /\ breaker # BreakerInit
    /\ breaker' = reset(breaker)
    /\ hist' = HistInit
    /\ UNCHANGED <<now, calls>>
    /\ UNCHANGED othersBreaker

BreakerTick ==
    /\ now < ClockStart + MaxBreakerTicks * timeout
    /\ now' = now + timeout
    /\ UNCHANGED <<breaker, calls, hist>>
    /\ UNCHANGED othersBreaker

(***************************************************************************)
(* RateLimiter state (rateLimiter.ts).  The token count is a real number   *)
(* in the program; the model holds it in units of 1/TokenScale of a token, *)
(* in which refillRate = tokensPerHour / (60 * 60 * 1000) tokens per       *)
(* millisecond is tokensPerHour units per millisecond, so that every       *)
(* token count is an exact integer.                                        *)
(***************************************************************************)
TokenScale == 60 * 60 * 1000

\* The keys in use: the fetcher passes 'github-api' to every call.
Keys == {"github-api"}

\* this.buckets = new Map(): no key has a bucket.
NoBucket == [present |-> FALSE, tokens |-> 0, lastRefill |-> 0, capacity |-> 0,
             refillRate |-> 0]
BucketsInit == [k \in Keys |-> NoBucket]

\* One slot per caller of waitForToken: pc is "idle", "sleep" or "done".
WaitInit == [pc |-> "idle", key |-> "github-api", maxWait |-> 0, startTime |-> 0,
             wakeAt |-> 0, result |-> "none", polls |-> 0, consumed |-> 0]

\* Once an interval has been opened (marked), the time it started at and the
\* tokens taken from each key since.
LimiterHistInit == [marked |-> FALSE, markTime |-> 0, taken |-> [k \in Keys |-> 0]]

\* No error (let lastError: Error | undefined).
undefined ==
    [kind |-> "undefined", name |-> "", code |-> "", message |-> <<>>,
     isOperational |-> FALSE]

\* retry() not called.
RetryInit ==
    [pc |-> "idle", maxRetries |-> 0, policy |-> "default", attempt |-> 0,
     lastError |-> undefined, delay |-> 0, invocations |-> 0,
     outcome |-> "none", thrown |-> undefined,
     firstThrown |-> undefined, allRetryable |-> TRUE]

\* No scan yet.  `raws' keeps, for the properties only, the text each
\* detection was made from.
ScanInit ==
    [pc |-> "idle", code |-> <<>>, filePath |-> <<>>, detections |-> <<>>, raws |-> <<>>,
     matches |-> <<>>, other |-> <<>>, again |-> <<>>, secret |-> <<>>, masked |-> <<>>]

(***************************************************************************)
(* The remote repository: what octokit.repos.getContent answers for each   *)
(* path when it succeeds.  Entry 1 is the root; a directory lists its      *)
(* entries in order, a file has its (decoded) content.                     *)
(***************************************************************************)
Tree ==
    << [path |-> <<>>, type |-> "dir", entries |-> <<2, 3, 4, 5, 7>>, content |-> <<>>],
       [path |-> <<"a", ".", "t", "x", "t">>, type |-> "file", entries |-> <<>>,
        content |-> <<"c", "o", "n", "s", "t", " ", "k", " ", "=", " ", "'", "A", "K", "I", "A", "A", "B", "C", "D", "E", "F", "G", "H", "I", "J", "K", "L", "M", "N", "O", "P", "'", ";">>],
       [path |-> <<"b", ".", "t", "x", "t">>, type |-> "file", entries |-> <<>>, content |-> <<"j", "w", "t", "=", "e", "y", "J", "h", "b", "G", "c", "i", "O", "i", ".", "e", "y", "J", "z", "d", "W", "I", "i", "O", "i", ".", "S", "f", "l", "K", "x", "w", "R", "J", "S", "M", "e", "K", "K", "F">>],
       [path |-> <<"l", "o", "g", "o", ".", "p", "n", "g">>, type |-> "file", entries |-> <<>>, content |-> <<"P", "N", "G">>],
       [path |-> <<"s", "u", "b">>, type |-> "dir", entries |-> <<6>>, content |-> <<>>],
       [path |-> <<"s", "u", "b", "/", "c", ".", "t", "x", "t">>, type |-> "file", entries |-> <<>>,
        content |-> <<"p", "a", "y", "(", "s", "k", "_", "l", "i", "v", "e", "_", "a", "b", "c", "d", "e", "f", "g", "h", "i", "j", "k", "l", "m", "n", "o", "p", "q", "r", "s", "t", "u", "v", "w", "x", ",", " ", "A", "K", "I", "A", "Q", "R", "S", "T", "U", "V", "W", "X", "Y", "Z", "0", "1", "2", "3", "4", "5", ")">>] ,
       [path |-> <<"v", "e", "n", "d", "o", "r">>, type |-> "dir", entries |-> <<8>>, content |-> <<>>],
       [path |-> <<"v", "e", "n", "d", "o", "r", "/", "l", ".", "j", "s">>, type |-> "file", entries |-> <<>>,
        content |-> <<"v", "a", "r", " ", "l", " ", "=", " ", "1", ";">>] >>
Node == 1..Len(Tree)
Root == 1

\* One getFilesRecursive or getFileContent call per path: pc is "idle" (not
\* called), "wait" (in waitForToken, timer set), "api" (inside execute and
\* retry, the request in flight), "backoff" (inside execute, retry's timer
\* set), "batch" (awaiting the Promise.all of a batch) or "done".  orphan:
\* the breaker's timer has won the race and the request is still in flight.
TaskInit ==
    [pc |-> "idle", wait |-> WaitInit, retry |-> RetryInit, start |-> 0, wakeAt |-> 0,
     batch |-> 0, orphan |-> FALSE, result |-> "none"]
TasksInit == [n \in Node |-> TaskInit]

\* One scan_repository call: the pipeline (scanPromise), the timer and the
\* response of the race.
\* response, error and report are what the call answers; pipeline, thrown,
\* scanned and results are how scanPromise ended; scanFault (the file whose
\* scan threw) and late (scanPromise settled after the timer had fired) are
\* kept for the properties only.
ScanCallInit ==
    [pc |-> "idle", path |-> 0, start |-> 0, timer |-> "unset", pipeline |-> "none",
     thrown |-> undefined, scanned |-> <<>>, results |-> <<>>, response |-> "none",
     error |-> undefined, report |-> <<>>, scanFault |-> 0, late |-> FALSE]

\* History of a fetch, kept for the properties only: the files whose content
\* the remote API returned, and the error that ended each failed remote call.
FetchHistInit == [readable |-> {}, failed |-> [n \in Node |-> undefined]]

InitBreaker ==
    /\ now = ClockStart
    /\ breaker = BreakerInit
    /\ calls = [c \in Callers |-> CallInit]
    /\ hist = HistInit
    /\ rt = RetryInit
    /\ buckets = BucketsInit
    /\ waits = [c \in Waiters |-> WaitInit]
    /\ lhist = LimiterHistInit
    /\ sc = ScanInit
    /\ tasks = TasksInit
    /\ files = <<>>
    /\ scanCall = ScanCallInit
    /\ fhist = FetchHistInit
    /\ scans = <<>>
    /\ an = <<>>
    /\ srv = <<>>

NextBreaker ==
    \/ \E c \in Callers : ExecuteEnter(c)
    \/ \E c \in Callers : ExecuteSucceed(c)
    \/ \E c \in Callers : ExecuteFail(c)
    \/ \E c \in Callers : ExecuteTimeout(c)
    \/ \E c \in Callers : LateSettle(c)
    \/ \E c \in Callers : ExecuteReturn(c)
    \/ BreakerReset
    \/ BreakerTick

SpecBreaker == InitBreaker /\ [][NextBreaker]_vars

\* An execute() call of caller c passes its entry check in this step.
Enters(c) == calls[c].pc = "idle" /\ calls'[c].pc # "idle"

C2_Step ==
    /\ (/\ breaker.state = "CLOSED"
        /\ hist'.consecFails > hist.consecFails
        /\ hist'.consecFails >= failureThreshold) => breaker'.state = "OPEN"
    /\ \A c \in Callers :
         Enters(c) /\ breaker.state = "OPEN" =>
            IF now - breaker.lastFailureTime < resetTimeout
            THEN /\ calls'[c].pc = "done"
                 /\ calls'[c].result = "CircuitBreakerError"
                 /\ ~calls'[c].invoked
                 /\ breaker' = breaker
            ELSE /\ breaker'.state = "HALF_OPEN"
                 /\ calls'[c].pc = "running"
                 /\ calls'[c].invoked

\* C2: the failureThreshold-th consecutive failed execute() call while CLOSED
\* leaves the breaker OPEN; an execute() call entered while OPEN less than
\* resetTimeout after the last failure throws CircuitBreakerError without
\* invoking fn; one entered at or after resetTimeout moves the breaker to
\* HALF_OPEN and invokes fn.
C2_BreakerTrips == [][C2_Step]_vars

\* The breaker has tripped, one caller was rejected while it was OPEN and, the
\* reset timeout over, another caller's call has moved it to HALF_OPEN.
C2_Witness ==
    /\ breaker.state = "HALF_OPEN"
    /\ hist.consecFails >= failureThreshold
    /\ \E c \in Callers : calls[c].pc = "running" /\ calls[c].invoked
    /\ \E c \in Callers : calls[c].result = "CircuitBreakerError"

\* An execute() call of caller c fails in this step: fn rejected or the
\* timer won the race.
Fails(c) ==
    /\ calls[c].pc = "running"
    /\ calls'[c].result \in {"error", "TimeoutError"}

\* An execute() call of caller c succeeds in this step.
Succeeds(c) == calls[c].pc = "running" /\ calls'[c].result = "ok"

C19_Step ==
    \A c \in Callers :
        breaker.state = "HALF_OPEN" /\ Fails(c) =>
            /\ breaker'.state = "OPEN"
            /\ breaker'.lastFailureTime = now

\* C19: an execute() call that fails (fn rejects, or the timer wins the race)
\* while the breaker is HALF_OPEN leaves the breaker OPEN, whatever
\* failureCount and successCount are.
C19_HalfOpenFailure == [][C19_Step]_vars

\* The breaker went back to OPEN from HALF_OPEN after a success there: its
\* failureCount is under the threshold and its successCount is not 0.
C19_Witness ==
    /\ breaker.state = "OPEN"
    /\ breaker.failureCount < failureThreshold
    /\ breaker.successCount > 0
    /\ \E c \in Callers : calls[c].result \in {"error", "TimeoutError"}

C20_Step ==
    /\ \A c \in Callers :
         breaker.state = "HALF_OPEN" /\ Succeeds(c) =>
            /\ breaker'.state = "CLOSED" <=> hist'.halfOpenSuccesses = failureThreshold
            /\ breaker'.state # "CLOSED" =>
                  /\ breaker'.state = "HALF_OPEN"
                  /\ hist'.halfOpenSuccesses < failureThreshold
            /\ breaker'.failureCount = 0
    /\ (/\ breaker.state = "HALF_OPEN"
        /\ breaker'.state = "CLOSED"
        /\ calls' # calls) => \E c \in Callers : Succeeds(c)

\* C20: while HALF_OPEN, an execute() call moves the breaker to CLOSED exactly
\* when it is the failureThreshold-th call to succeed since the breaker
\* entered HALF_OPEN, no call closes it earlier, and the breaker then has
\* failureCount 0.
C20_HalfOpenCloses == [][C20_Step]_vars

\* The breaker has closed from HALF_OPEN on the failureThreshold-th success.
C20_Witness ==
    /\ breaker.state = "CLOSED"
    /\ hist.halfOpenSuccesses = failureThreshold
    /\ breaker.successCount = failureThreshold
    /\ breaker.failureCount = 0
    /\ \E c \in Callers : calls[c].result = "ok"


C21_Step ==
    /\ \A c \in Callers :
         breaker.state = "CLOSED" /\ Succeeds(c) =>
            /\ breaker'.state = "CLOSED"
            /\ breaker'.failureCount = 0
    /\ (breaker.state = "CLOSED" /\ breaker'.state = "OPEN") =>
            /\ hist'.consecFails >= failureThreshold
            /\ \E c \in Callers : Fails(c)

\* C21: an execute() call that succeeds while the breaker is CLOSED leaves it
\* CLOSED with failureCount 0, and the breaker leaves CLOSED for OPEN only on
\* a failed call that is at least the failureThreshold-th in a row: failures
\* with a success between them, fewer than failureThreshold on each side,
\* never open it.
C21_ClosedSuccess == [][C21_Step]_vars

\* failureThreshold or more calls have failed since the breaker was made
\* CLOSED, a success among them, and the breaker is still CLOSED.
C21_Witness ==
    /\ breaker.state = "CLOSED"
    /\ hist.closedFails >= failureThreshold
    /\ hist.consecFails < failureThreshold
    /\ breaker.failureCount > 0


\* The caller of execute() has taken its result or error and its slot is
\* free again.
Returns(c) == calls[c].pc = "done" /\ calls'[c].pc = "idle"

C22_Step ==
    \A c \in Callers :
        /\ (calls[c].pc = "running" /\ calls'[c].result = "TimeoutError") =>
              /\ now - calls[c].start >= timeout
              /\ calls[c].invoked
        /\ Fails(c) =>
              /\ breaker'.failureCount = breaker.failureCount + 1
              /\ breaker'.lastFailureTime = now
              /\ breaker'.state = "OPEN" <=>
                    \/ breaker.state # "CLOSED"
                    \/ breaker.failureCount + 1 >= failureThreshold
        /\ Succeeds(c) =>
              /\ breaker'.failureCount = 0
              /\ breaker'.lastFailureTime = breaker.lastFailureTime
              /\ breaker.state = "HALF_OPEN" =>
                    breaker'.successCount = breaker.successCount + 1
        /\ (calls[c].pc = "running" /\ calls'[c].pc = "running") =>
              calls'[c].result = "none"
        /\ Returns(c) =>
              /\ calls[c].result # "none"
              /\ breaker' = breaker

\* C22: an execute() call ends with TimeoutError only when `timeout' ms have
\* passed since fn was invoked and fn has not settled, and that call is
\* counted as a failure like a rejection of fn; the step that decides the
\* outcome of an admitted call (ok, error or TimeoutError) is the step that
\* updates the counters and the state of the breaker, and the later step
\* that hands the outcome to the caller changes nothing in the breaker.
C22_TimeoutCounted == [][C22_Step]_vars

\* The timer has won the race of a call: the call has failed with
\* TimeoutError, fn is still running, and the failure is counted.
C22_Witness ==
    \E c \in Callers :
        /\ calls[c].pc = "orphan"
        /\ calls[c].result = "TimeoutError"
        /\ breaker.failureCount > 0
        /\ breaker.lastFailureTime = now


\* C27: whenever the breaker is CLOSED its failureCount is below
\* failureThreshold, however the execute() calls of the callers interleave.
C27_ClosedBelowThreshold ==
    breaker.state = "CLOSED" => breaker.failureCount < failureThreshold

\* Two calls are in flight at once on a CLOSED breaker that is one failure
\* from opening.
C27_Witness ==
    /\ breaker.state = "CLOSED"
    /\ breaker.failureCount = failureThreshold - 1
    /\ \A c \in Callers : calls[c].pc = "running"

\* reset() is called in this step.
Resets == calls' = calls /\ now' = now /\ breaker' # breaker

C28_Step ==
    /\ (breaker.state = "OPEN" /\ breaker'.state # "OPEN" /\ ~Resets) =>
          /\ breaker'.state = "HALF_OPEN"
          /\ now - breaker.lastFailureTime >= resetTimeout
          /\ \E c \in Callers : Enters(c) /\ calls'[c].invoked
    /\ \A c \in Callers :
          /\ (breaker.state = "OPEN" /\ Succeeds(c)) =>
                /\ breaker'.state = "OPEN"
                /\ breaker'.lastFailureTime = breaker.lastFailureTime
          /\ (breaker.state = "OPEN" /\ Fails(c)) =>
                /\ breaker'.state = "OPEN"
                /\ breaker'.lastFailureTime = now
                /\ breaker'.lastFailureTime >= breaker.lastFailureTime

\* C28: apart from reset(), the breaker leaves OPEN only for HALF_OPEN, at
\* the entry of an execute() call made resetTimeout or more after
\* lastFailureTime; a call admitted before the breaker opened that succeeds
\* while it is OPEN leaves it OPEN, and one that fails while it is OPEN leaves
\* it OPEN with lastFailureTime set to that moment.
C28_OpenLeaves == [][C28_Step]_vars

\* A call admitted while CLOSED has succeeded after the breaker opened: the
\* breaker is OPEN with failureCount 0.
C28_Witness ==
    /\ breaker.state = "OPEN"
    /\ breaker.failureCount = 0
    /\ \E c \in Callers : calls[c].result = "ok"
    /\ \E c \in Callers : calls[c].result \in {"error", "TimeoutError"}

C29_Step ==
    \A c \in Callers :
        (breaker.state = "HALF_OPEN" /\ Enters(c)) =>
            /\ calls'[c].pc = "running"
            /\ calls'[c].invoked
            /\ calls'[c].result # "CircuitBreakerError"
            /\ breaker' = breaker

\* C29: an execute() call entered while the breaker is HALF_OPEN is never
\* rejected with CircuitBreakerError: it invokes fn and leaves the breaker as
\* it is, however many calls are already in flight.
C29_HalfOpenAdmits == [][C29_Step]_vars

\* Every caller has a call in flight on a HALF_OPEN breaker.
C29_Witness ==
    /\ breaker.state = "HALF_OPEN"
    /\ \A c \in Callers : calls[c].pc = "running" /\ calls[c].invoked


(***************************************************************************)
(* Strings are sequences of one-character strings.                         *)
(***************************************************************************)
UpperCase == <<"A","B","C","D","E","F","G","H","I","J","K","L","M",
               "N","O","P","Q","R","S","T","U","V","W","X","Y","Z">>
LowerCase == <<"a","b","c","d","e","f","g","h","i","j","k","l","m",
               "n","o","p","q","r","s","t","u","v","w","x","y","z">>

\* String.prototype.toLowerCase, on one character and on a string.
LowerOf == [ch \in {UpperCase[i] : i \in 1..26} |->
               LowerCase[CHOOSE i \in 1..26 : UpperCase[i] = ch]]
LowerChar(ch) == IF ch \in DOMAIN LowerOf THEN LowerOf[ch] ELSE ch
toLowerCase(s) == [i \in 1..Len(s) |-> LowerChar(s[i])]

\* s.startsWith(k), s.endsWith(k), s.includes(k), s.indexOf(k) >= 0
startsWith(s, k) == Len(k) <= Len(s) /\ SubSeq(s, 1, Len(k)) = k
endsWith(s, k) == Len(k) <= Len(s) /\ SubSeq(s, Len(s) - Len(k) + 1, Len(s)) = k
includes(s, k) == \E i \in 0..(Len(s) - Len(k)) : SubSeq(s, i + 1, i + Len(k)) = k

(***************************************************************************)
(* Errors (errors.ts).  A thrown value is an AppError (of some subclass),  *)
(* another Error, or a value that is no Error at all.                      *)
(***************************************************************************)
AppError(name, code, message, isOperational) ==
    [kind |-> "AppError", name |-> name, code |-> code, message |-> message,
     isOperational |-> isOperational]
ValidationError(message) == AppError("ValidationError", "VALIDATION_ERROR", message, TRUE)
GitHubAPIError(message) == AppError("GitHubAPIError", "GITHUB_API_ERROR", message, TRUE)
RateLimitError(message) == AppError("RateLimitError", "RATE_LIMIT_ERROR", message, TRUE)
TimeoutError(message) == AppError("TimeoutError", "TIMEOUT_ERROR", message, TRUE)
RepositoryAccessError(message) ==
    AppError("RepositoryAccessError", "REPOSITORY_ACCESS_ERROR", message, TRUE)
CircuitBreakerError(message) ==
    AppError("CircuitBreakerError", "CIRCUIT_BREAKER_ERROR", message, TRUE)
\* new Error(message): what a library (Octokit, Node) throws.
PlainError(message) ==
    [kind |-> "Error", name |-> "Error", code |-> "", message |-> message,
     isOperational |-> FALSE]
\* throw "text": a thrown value that is not an Error.
NonError(text) ==
    [kind |-> "value", name |-> "", code |-> "", message |-> text, isOperational |-> FALSE]

isOperationalError(error) ==
    IF error.kind = "AppError" THEN error.isOperational ELSE FALSE

(***************************************************************************)
(* retry (retry.ts)                                                        *)
(***************************************************************************)
MAX_RETRIES == 3
RETRY_DELAY_BASE == 1000
RETRY_DELAY_MAX == 30000

MaxRetriesArg == 3    \* options.maxRetries ranges over 0..MaxRetriesArg

\* The substrings the default retryable predicate looks for.
RetryKeywords ==
    { <<"t", "i", "m", "e", "o", "u", "t">>, <<"r", "a", "t", "e", " ", "l", "i", "m", "i", "t">>, <<"n", "e", "t", "w", "o", "r", "k">>, <<"e", "c", "o", "n", "n", "r", "e", "s", "e", "t">>, <<"e", "t", "i", "m", "e", "d", "o", "u", "t">>,
      <<"5", "0", "3">>, <<"4", "2", "9">> }

\* options.retryable: the default predicate, or one given by the caller.
defaultRetryable(error) ==
    IF ~isOperationalError(error)
    THEN FALSE
    ELSE LET message == toLowerCase(error.message) IN
         \E k \in RetryKeywords : includes(message, k)

retryable(policy, error) ==
    CASE policy = "default" -> defaultRetryable(error)
      [] policy = "always" -> TRUE
      [] policy = "never" -> FALSE

\* lastError = error instanceof Error ? error : new Error(String(error))
AsError(v) == IF v.kind = "value" THEN PlainError(v.message) ELSE v

RECURSIVE Pow2(_)
Pow2(n) == IF n <= 0 THEN 1 ELSE 2 * Pow2(n - 1)

\* calculateDelay, with Math.random() * 0.3 taken as jitter / 100.
calculateDelay(attempt, baseDelay, maxDelay, jitter) ==
    LET exponentialDelay == baseDelay * Pow2(attempt) IN
    Min(exponentialDelay + (jitter * exponentialDelay) \div 100, maxDelay)

JitterPercents == {0, 15, 29}

\* What fn() may throw.
ThrownValues ==
    { RateLimitError(<<"R", "a", "t", "e", " ", "l", "i", "m", "i", "t", " ", "e", "x", "c", "e", "e", "d", "e", "d">>),
      TimeoutError(<<"O", "p", "e", "r", "a", "t", "i", "o", "n", " ", "t", "i", "m", "e", "d", " ", "o", "u", "t">>),
      GitHubAPIError(<<"H", "T", "T", "P", " ", "5", "0", "3">>),
      ValidationError(<<"I", "n", "v", "a", "l", "i", "d", " ", "t", "i", "m", "e", "o", "u", "t">>),
      ValidationError(<<"O", "w", "n", "e", "r", " ", "c", "a", "n", "n", "o", "t", " ", "b", "e", " ", "e", "m", "p", "t", "y">>),
      AppError("AppError", "INTERNAL", <<"N", "e", "t", "w", "o", "r", "k", " ", "b", "u", "g">>, FALSE),
      PlainError(<<"c", "o", "n", "n", "e", "c", "t", " ", "E", "T", "I", "M", "E", "D", "O", "U", "T">>),
      PlainError(<<"N", "o", "t", " ", "F", "o", "u", "n", "d">>),
      NonError(<<"4", "2", "9">>) }

\* retry(fn, options) up to the first fn().
RetryCall(maxRetries, policy) ==
    /\ rt.pc = "idle"
    /\ rt' = [rt EXCEPT !.pc = "attempt", !.maxRetries = maxRetries, !.policy = policy]
    /\ UNCHANGED othersRetry

\* await fn() resolves: its value is returned.
RetryFnResolves ==
    /\ rt.pc = "attempt"
    /\ rt' = [rt EXCEPT !.pc = "done", !.invocations = rt.invocations + 1,
                        !.outcome = "returned"]
    /\ UNCHANGED othersRetry

\* catchBlock without the test of retryable(): every error is retried.
catchBlockRetryAll(r, v, jitter) ==
    LET lastError == AsError(v)
        r1 == [r EXCEPT !.lastError = lastError] IN
    IF r.attempt >= r.maxRetries
    THEN [r1 EXCEPT !.pc = "done", !.outcome = "threw", !.thrown = lastError]
    ELSE [r1 EXCEPT !.pc = "sleep",
                    !.delay = calculateDelay(r.attempt, RETRY_DELAY_BASE,
                                             RETRY_DELAY_MAX, jitter)]

\* The catch block of the loop, fn() having thrown v.
catchBlock(r, v, jitter) ==
    LET lastError == AsError(v)
        r1 == [r EXCEPT !.lastError = lastError] IN
    IF ~retryable(r.policy, lastError)
    THEN [r1 EXCEPT !.pc = "done", !.outcome = "threw", !.thrown = lastError]
    ELSE IF r.attempt >= r.maxRetries
         THEN [r1 EXCEPT !.pc = "done", !.outcome = "threw", !.thrown = lastError]
         ELSE [r1 EXCEPT !.pc = "sleep",
                         !.delay = calculateDelay(r.attempt, RETRY_DELAY_BASE,
                                                  RETRY_DELAY_MAX, jitter)]

\* await fn() rejects with v.
RetryFnRejects(v, jitter) ==
    /\ rt.pc = "attempt"
    /\ rt' = catchBlock(
         [rt EXCEPT !.invocations = rt.invocations + 1,
                    !.firstThrown = IF rt.invocations = 0 THEN v ELSE rt.firstThrown,
                    !.allRetryable = rt.allRetryable /\ retryable(rt.policy, AsError(v))],
         v, jitter)
    /\ UNCHANGED othersRetry

\* The delay is over: attempt++, the loop test, and the next fn() or the
\* throw after the loop.
RetryWake ==
    /\ rt.pc = "sleep"
    /\ rt' = IF rt.attempt + 1 <= rt.maxRetries
             THEN [rt EXCEPT !.pc = "attempt", !.attempt = rt.attempt + 1, !.delay = 0]
             ELSE [rt EXCEPT !.pc = "done", !.attempt = rt.attempt + 1, !.delay = 0,
                             !.outcome = "threw", !.thrown = rt.lastError]
    /\ UNCHANGED othersRetry

InitRetry ==
    /\ now = ClockStart
    /\ breaker = BreakerInit
    /\ calls = [c \in Callers |-> CallInit]
    /\ hist = HistInit
    /\ rt = RetryInit
    /\ buckets = BucketsInit
    /\ waits = [c \in Waiters |-> WaitInit]
    /\ lhist = LimiterHistInit
    /\ sc = ScanInit
    /\ tasks = TasksInit
    /\ files = <<>>
    /\ scanCall = ScanCallInit
    /\ fhist = FetchHistInit
    /\ scans = <<>>
    /\ an = <<>>
    /\ srv = <<>>

NextRetry ==
    \/ \E m \in 0..MaxRetriesArg, p \in {"default", "always", "never"} : RetryCall(m, p)
    \/ RetryCall(MAX_RETRIES, "default")
    \/ RetryFnResolves
    \/ \E v \in ThrownValues, j \in JitterPercents : RetryFnRejects(v, j)
    \/ RetryWake

SpecRetry == InitRetry /\ [][NextRetry]_vars

\* C3: retry invokes fn at most maxRetries + 1 times; when every attempt fails
\* with a retryable error it invokes fn exactly maxRetries + 1 times and throws
\* the last attempt's error; when the first error is not retryable it invokes
\* fn once and throws that error.
C3_RetryBounded ==
    /\ rt.invocations <= rt.maxRetries + 1
    /\ (rt.pc = "done" /\ rt.outcome = "threw" /\ rt.allRetryable) =>
          /\ rt.invocations = rt.maxRetries + 1
          /\ rt.thrown = rt.lastError
    /\ (rt.pc = "done" /\ rt.firstThrown # undefined
          /\ ~retryable(rt.policy, AsError(rt.firstThrown))) =>
          /\ rt.invocations = 1
          /\ rt.outcome = "threw"
          /\ rt.thrown = AsError(rt.firstThrown)

\* A run with maxRetries = 3 whose four attempts all failed with retryable errors.
C3_Witness ==
    /\ rt.pc = "done" /\ rt.outcome = "threw" /\ rt.allRetryable
    /\ rt.maxRetries = 3 /\ rt.invocations = 4

\* C10: under the default policy a retry is scheduled only for an operational
\* error of the rate-limit, timeout, network or 429/503 class, and never for a
\* non-AppError or a ValidationError.
C10_DefaultPolicy ==
    (rt.pc = "sleep" /\ rt.policy = "default") =>
       /\ rt.lastError.kind = "AppError"
       /\ rt.lastError.isOperational
       /\ rt.lastError.name # "ValidationError"
       /\ \E k \in RetryKeywords : includes(toLowerCase(rt.lastError.message), k)

(***************************************************************************)
(* RateLimiter (rateLimiter.ts)                                            *)
(***************************************************************************)
RateLimitBurst == 2       \* config.GITHUB_RATE_LIMIT_BURST of the model
RateLimitPerHour == 1800  \* config.GITHUB_RATE_LIMIT_PER_HOUR of the model
MaxLimiterTicks == 4      \* clock steps in which limiter calls may start

\* new RateLimiter(capacity, tokensPerHour)
capacity == RateLimitBurst
refillRate == RateLimitPerHour

\* The bucket of key, created full on first use.
getBucket(bs, key, t) ==
    IF bs[key].present
    THEN bs[key]
    ELSE [present |-> TRUE, tokens |-> capacity * TokenScale, lastRefill |-> t,
          capacity |-> capacity, refillRate |-> refillRate]

\* refill without the cap at capacity.
refillUncapped(bucket, t) ==
    LET timeElapsed == t - bucket.lastRefill
        tokensToAdd == timeElapsed * bucket.refillRate IN
    [bucket EXCEPT !.tokens = bucket.tokens + tokensToAdd, !.lastRefill = t]

\* The refill of tryConsume.
refill(bucket, t) ==
    LET timeElapsed == t - bucket.lastRefill
        tokensToAdd == timeElapsed * bucket.refillRate IN
    [bucket EXCEPT !.tokens = Min(bucket.capacity * TokenScale, bucket.tokens + tokensToAdd),
                   !.lastRefill = t]

\* tryConsume(key) at time t: the buckets afterwards and the value returned.
tryConsume(bs, key, t) ==
    LET bucket == refill(getBucket(bs, key, t), t) IN
    IF bucket.tokens >= 1 * TokenScale
    THEN [buckets |-> [bs EXCEPT ![key] = [bucket EXCEPT !.tokens = bucket.tokens - 1 * TokenScale]],
          ok |-> TRUE]
    ELSE [buckets |-> [bs EXCEPT ![key] = bucket], ok |-> FALSE]

\* Whole tokens that a tryConsume(key) at time t took out of the bucket:
\* the refilled count less the count it left.
TokensTaken(bs, bsAfter, key, t) ==
    (refill(getBucket(bs, key, t), t).tokens - bsAfter[key].tokens) \div TokenScale

\* The history after n tokens were taken from key.
Counted(h, key, n) == IF h.marked THEN [h EXCEPT !.taken[key] = @ + n] ELSE h

\* The backoff of waitForToken.
waitTime(elapsed) == Min(1000 * Pow2(elapsed \div 5000), 5000)

\* The clock of the limiter specifications advances by the shortest backoff.
LimiterTickMs == waitTime(0)

\* pollOnce giving up at the first failed poll, whatever maxWait is.
pollOnceGiveUp(w, ok, t) ==
    IF ok
    THEN [w EXCEPT !.pc = "done", !.result = "ok", !.wakeAt = 0]
    ELSE [w EXCEPT !.pc = "done", !.result = "RateLimitError", !.wakeAt = 0]

\* One turn of the loop of waitForToken: the poll and, when it fails, the
\* test of maxWait and the timer.
pollOnce(w, ok, t) ==
    IF ok
    THEN [w EXCEPT !.pc = "done", !.result = "ok", !.wakeAt = 0]
    ELSE LET elapsed == t - w.startTime IN
         IF elapsed >= w.maxWait
         THEN [w EXCEPT !.pc = "done", !.result = "RateLimitError", !.wakeAt = 0]
         ELSE [w EXCEPT !.pc = "sleep", !.wakeAt = t + waitTime(elapsed)]

\* A direct call of tryConsume(key).
TryConsume(key) ==
    /\ now < ClockStart + MaxLimiterTicks * LimiterTickMs
    /\ LET r == tryConsume(buckets, key, now) IN
       /\ buckets' = r.buckets
       /\ lhist' = Counted(lhist, key, TokensTaken(buckets, r.buckets, key, now))
    /\ UNCHANGED <<now, waits>>
    /\ UNCHANGED othersLimiter

\* waitForToken(key, maxWait) up to its first await (or its return or throw).
WaitForToken(c, key, maxWait) ==
    /\ waits[c].pc = "idle"
    /\ now < ClockStart + MaxLimiterTicks * LimiterTickMs
    /\ LET r == tryConsume(buckets, key, now)
           n == TokensTaken(buckets, r.buckets, key, now)
           w == [WaitInit EXCEPT !.key = key, !.maxWait = maxWait, !.startTime = now,
                                 !.polls = 1, !.consumed = n] IN
       /\ buckets' = r.buckets
       /\ waits' = [waits EXCEPT ![c] = pollOnce(w, r.ok, now)]
       /\ lhist' = Counted(lhist, key, n)
    /\ UNCHANGED now
    /\ UNCHANGED othersLimiter

\* The timer of the loop has fired: the next poll.
WaitWake(c) ==
    /\ waits[c].pc = "sleep"
    /\ now >= waits[c].wakeAt
    /\ LET key == waits[c].key
           r == tryConsume(buckets, key, now)
           n == TokensTaken(buckets, r.buckets, key, now)
           w == [waits[c] EXCEPT !.polls = @ + 1, !.consumed = @ + n] IN
       /\ buckets' = r.buckets
       /\ waits' = [waits EXCEPT ![c] = pollOnce(w, r.ok, now)]
       /\ lhist' = Counted(lhist, key, n)
    /\ UNCHANGED now
    /\ UNCHANGED othersLimiter

\* The caller has its result; the slot is free for the next call.
WaitReturn(c) ==
    /\ waits[c].pc = "done"
    /\ waits' = [waits EXCEPT ![c] = WaitInit]
    /\ UNCHANGED <<now, buckets, lhist>>
    /\ UNCHANGED othersLimiter

\* The start of the interval in which the tokens taken are counted.
LimiterMark ==
    /\ ~lhist.marked
    /\ lhist' = [lhist EXCEPT !.marked = TRUE, !.markTime = now]
    /\ UNCHANGED <<now, buckets, waits>>
    /\ UNCHANGED othersLimiter

\* Time passes.  Calls start in the first MaxLimiterTicks steps of the clock,
\* in which a timer may fire late; after them the clock runs on only up to
\* the next timer.
LimiterTick ==
    /\ \/ now < ClockStart + MaxLimiterTicks * LimiterTickMs
       \/ /\ \E c \in Waiters : waits[c].pc = "sleep"
          /\ \A c \in Waiters : waits[c].pc = "sleep" => now < waits[c].wakeAt
    /\ now' = now + LimiterTickMs
    /\ UNCHANGED <<buckets, waits, lhist>>
    /\ UNCHANGED othersLimiter

MaxWaits == {0, 2000, 7000}

InitLimiter ==
    /\ now = ClockStart
    /\ breaker = BreakerInit
    /\ calls = [c \in Callers |-> CallInit]
    /\ hist = HistInit
    /\ rt = RetryInit
    /\ buckets = BucketsInit
    /\ waits = [c \in Waiters |-> WaitInit]
    /\ lhist = LimiterHistInit
    /\ sc = ScanInit
    /\ tasks = TasksInit
    /\ files = <<>>
    /\ scanCall = ScanCallInit
    /\ fhist = FetchHistInit
    /\ scans = <<>>
    /\ an = <<>>
    /\ srv = <<>>

NextLimiter ==
    \/ \E k \in Keys : TryConsume(k)
    \/ \E c \in Waiters, k \in Keys, m \in MaxWaits : WaitForToken(c, k, m)
    \/ \E c \in Waiters : WaitWake(c)
    \/ \E c \in Waiters : WaitReturn(c)
    \/ LimiterMark
    \/ LimiterTick

SpecLimiter == InitLimiter /\ [][NextLimiter]_vars

\* The limiter without the bookkeeping of intervals, each caller making one
\* call of waitForToken.
NextLimiterLive ==
    \/ \E k \in Keys : TryConsume(k)
    \/ \E c \in Waiters, k \in Keys, m \in MaxWaits : WaitForToken(c, k, m)
    \/ \E c \in Waiters : WaitWake(c)
    \/ LimiterTick

\* Timers fire and time passes: the event loop runs every timer that is due.
SpecLimiterLive ==
    /\ InitLimiter /\ [][NextLimiterLive]_vars
    /\ WF_vars(LimiterTick)
    /\ \A c \in Waiters : WF_vars(WaitWake(c))

C8_Range ==
    /\ \A k \in Keys : buckets[k].present =>
          /\ buckets[k].tokens >= 0
          /\ buckets[k].tokens <= capacity * TokenScale
    /\ lhist.marked => \A k \in Keys :
          lhist.taken[k] * TokenScale
             <= capacity * TokenScale + RateLimitPerHour * (now - lhist.markTime)

\* A step that changes the bucket of k is one tryConsume(k): it leaves the
\* refilled count less one token when that count is at least one token, and
\* the refilled count otherwise.
C8_Step ==
    \A k \in Keys : buckets'[k] # buckets[k] =>
       LET old == IF buckets[k].present THEN buckets[k].tokens ELSE capacity * TokenScale
           elapsed == IF buckets[k].present THEN now - buckets[k].lastRefill ELSE 0
           filled == Min(capacity * TokenScale, old + elapsed * RateLimitPerHour) IN
       /\ buckets'[k].lastRefill = now
       /\ buckets'[k].tokens = IF filled >= TokenScale THEN filled - TokenScale ELSE filled

\* C8: the token count stays within [0, capacity]; every tryConsume refills by
\* elapsed time times rate up to capacity and then takes exactly one token when
\* at least one is there and none otherwise; the tokens taken in an interval
\* never exceed capacity plus rate times the length of the interval.
C8_TokenBucket == [](C8_Range) /\ [][C8_Step]_vars

\* More tokens than the capacity were taken in the interval (refilled tokens
\* among them) and the bucket is left with less than one token.
C8_Witness ==
    /\ lhist.marked
    /\ \E k \in Keys : /\ lhist.taken[k] > capacity
                       /\ buckets[k].present
                       /\ buckets[k].tokens < TokenScale

C9_Safe ==
    \A c \in Waiters :
       /\ waits[c].pc = "sleep" => waits[c].consumed = 0
       /\ (waits[c].pc = "done" /\ waits[c].result = "ok") => waits[c].consumed = 1
       /\ (waits[c].pc = "done" /\ waits[c].result = "RateLimitError") =>
             /\ waits[c].consumed = 0
             /\ now - waits[c].startTime >= waits[c].maxWait

Lit(str) == [op |-> "lit", str |-> toLowerCase(str)]
\* [set]{min,max} and [set]{min,}
Cls(set, min, max) ==
    [op |-> "cls", set |-> {LowerChar(x) : x \in set}, min |-> min, bounded |-> TRUE,
     max |-> max]
ClsMin(set, min) ==
    [op |-> "cls", set |-> {LowerChar(x) : x \in set}, min |-> min, bounded |-> FALSE,
     max |-> min]
Cat(args) == [op |-> "seq", args |-> args]
Alt(args) == [op |-> "alt", args |-> args]
Opt(arg) == [op |-> "opt", arg |-> arg]

Digits == {"0", "1", "2", "3", "4", "5", "6", "7", "8", "9"}
Letters == {LowerCase[i] : i \in 1..26} \cup {UpperCase[i] : i \in 1..26}
\* \s, as far as the characters of a line go
Spaces == {" ", "\t", "\r"}

\* ch is in the class, the i flag applied
InClass(ch, set) == LowerChar(ch) \in set

\* The length of the longest run of class characters of s after the first p
\* characters, at most limit.
RunLen(s, p, set, limit) ==
    IF limit = 0 \/ p >= Len(s) THEN 0
    ELSE LET most == IF limit < Len(s) - p THEN limit ELSE Len(s) - p
         IN  CHOOSE n \in 0..most :
                /\ \A k \in 1..n : InClass(s[p + k], set)
                /\ n = most \/ ~InClass(s[p + n + 1], set)

\* The sequences of ss joined end to end, the two halves of ss each in turn.
RECURSIVE Flatten(_)
Flatten(ss) ==
    IF ss = <<>> THEN <<>>
    ELSE IF Len(ss) = 1 THEN ss[1]
    ELSE LET half == Len(ss) \div 2
         IN  Flatten(SubSeq(ss, 1, half)) \o Flatten(SubSeq(ss, half + 1, Len(ss)))

\* The ends of the matches of re that start after the first p characters of
\* s, in the order a backtracking matcher tries them (greedy first).
RECURSIVE Ends(_, _, _)
RECURSIVE CatEnds(_, _, _, _)
Ends(re, s, p) ==
    CASE re.op = "lit" ->
           IF /\ p + Len(re.str) <= Len(s)
              /\ \A k \in 1..Len(re.str) : LowerChar(s[p + k]) = re.str[k]
           THEN <<p + Len(re.str)>> ELSE <<>>
      [] re.op = "cls" ->
           LET run == RunLen(s, p, re.set, IF re.bounded THEN re.max ELSE Len(s))
           IN  IF run < re.min THEN <<>>
               ELSE [j \in 1..(run - re.min + 1) |-> p + run - (j - 1)]
      [] re.op = "seq" -> CatEnds(re.args, 1, s, p)
      [] re.op = "alt" -> Flatten([k \in 1..Len(re.args) |-> Ends(re.args[k], s, p)])
      [] re.op = "opt" -> Ends(re.arg, s, p) \o <<p>>
CatEnds(args, k, s, p) ==
    IF k > Len(args) THEN <<p>>
    ELSE LET first == Ends(args[k], s, p)
         IN  Flatten([j \in 1..Len(first) |-> CatEnds(args, k + 1, s, first[j])])

\* regex.exec in a loop (flag g): the matches of re in line, left to right,
\* each search starting where the last match ended.
RECURSIVE execAll(_, _, _)
execAll(re, line, lastIndex) ==
    LET starts == {q \in lastIndex..Len(line) : Ends(re, line, q) # <<>>}
    IN  IF starts = {} THEN <<>>
        ELSE LET index == CHOOSE q \in starts : \A r \in starts : q <= r
                 ends == Ends(re, line, index)
             IN  IF ends[1] = index THEN <<[value |-> <<>>, index |-> index]>>
                 ELSE <<[value |-> SubSeq(line, index + 1, ends[1]), index |-> index]>>
                          \o execAll(re, line, ends[1])
matchPattern(line, pattern) == execAll(pattern.pattern, line, 0)

(***************************************************************************)
(* The signature table (SecretPatterns.ts): six of its signatures, in the  *)
(* order of the table.  `source' is pattern.source, the text of the        *)
(* pattern; validator names the signature's validator, "" when it has      *)
(* none; no signature of the table sets minLength.                         *)
(***************************************************************************)
WordChars == Letters \cup Digits \cup {"_", "-"}
HexChars == Digits \cup {"a", "b", "c", "d", "e", "f"}
Quotes == {"'", "\""}

aws_access_key_id ==
    [name |-> "aws_access_key_id", category |-> "Cloud Provider", severity |-> "critical",
     pattern |-> Cat(<<Lit(<<"A", "K", "I", "A">>), Cls(Digits \cup Letters, 16, 16)>>),
     source |-> <<"A", "K", "I", "A", "[", "0", "-", "9", "A", "-", "Z", "]", "{", "1", "6", "}">>,
     validator |-> "", minLength |-> 0,
     recommendation |-> <<"R", "o", "t", "a", "t", "e", " ", "A", "W", "S", " ", "a", "c", "c", "e", "s", "s", " ", "k", "e", "y", "s", " ", "i", "m", "m", "e", "d", "i", "a", "t", "e", "l", "y", " ", "a", "n", "d", " ", "r", "e", "m", "o", "v", "e", " ", "f", "r", "o", "m", " ", "c", "o", "d", "e", "b", "a", "s", "e">>]
stripe_api_key ==
    [name |-> "stripe_api_key", category |-> "Payment", severity |-> "critical",
     pattern |-> Alt(<<Cat(<<Lit(<<"s", "k", "_", "l", "i", "v", "e", "_">>), ClsMin(Digits \cup Letters, 24)>>),
                       Cat(<<Lit(<<"r", "k", "_", "l", "i", "v", "e", "_">>), ClsMin(Digits \cup Letters, 24)>>)>>),
     source |-> <<"s", "k", "_", "l", "i", "v", "e", "_", "[", "0", "-", "9", "a", "-", "z", "A", "-", "Z", "]", "{", "2", "4", ",", "}", "|", "r", "k", "_", "l", "i", "v", "e", "_", "[", "0", "-", "9", "a", "-", "z", "A", "-", "Z", "]", "{", "2", "4", ",", "}">>,
     validator |-> "", minLength |-> 0,
     recommendation |-> <<"R", "e", "g", "e", "n", "e", "r", "a", "t", "e", " ", "S", "t", "r", "i", "p", "e", " ", "A", "P", "I", " ", "k", "e", "y", "s", " ", "a", "n", "d", " ", "r", "e", "v", "i", "e", "w", " ", "c", "h", "a", "r", "g", "e", "s">>]
api_key_generic ==
    [name |-> "api_key_generic", category |-> "API", severity |-> "medium",
     pattern |-> Cat(<<Lit(<<"a", "p", "i">>), Cls({"_", "-"}, 0, 1), Lit(<<"k", "e", "y">>), ClsMin(Spaces, 0),
                       Cls({"=", ":"}, 1, 1), ClsMin(Spaces, 0), Cls(Quotes, 0, 1),
                       ClsMin(WordChars, 20), Cls(Quotes, 0, 1)>>),
     source |-> <<"a", "p", "i", "[", "_", "-", "]", "?", "k", "e", "y", "\\", "s", "*", "[", "=", ":", "]", "\\", "s", "*", "[", "'", "\"", "]", "?", "(", "[", "A", "-", "Z", "a", "-", "z", "0", "-", "9", "_", "-", "]", "{", "2", "0", ",", "}", ")", "[", "'", "\"", "]", "?">>,
     validator |-> "", minLength |-> 0,
     recommendation |-> <<"R", "e", "v", "i", "e", "w", " ", "a", "n", "d", " ", "r", "o", "t", "a", "t", "e", " ", "A", "P", "I", " ", "k", "e", "y", " ", "i", "f", " ", "e", "x", "p", "o", "s", "e", "d">>]
jwt_token ==
    [name |-> "jwt_token", category |-> "Authentication", severity |-> "high",
     pattern |-> Cat(<<Lit(<<"e", "y", "J">>), ClsMin(WordChars, 5), Lit(<<".", "e", "y", "J">>), ClsMin(WordChars, 5),
                       Lit(<<".">>), ClsMin(WordChars, 10)>>),
     source |-> <<"e", "y", "J", "[", "A", "-", "Z", "a", "-", "z", "0", "-", "9", "_", "-", "]", "{", "5", ",", "}", "\\", ".", "e", "y", "J", "[", "A", "-", "Z", "a", "-", "z", "0", "-", "9", "_", "-", "]", "{", "5", ",", "}", "\\", ".", "[", "A", "-", "Z", "a", "-", "z", "0", "-", "9", "_", "-", "]", "{", "1", "0", ",", "}">>,
     validator |-> "jwt_token", minLength |-> 0,
     recommendation |-> <<"R", "e", "v", "o", "k", "e", " ", "J", "W", "T", " ", "t", "o", "k", "e", "n", " ", "a", "n", "d", " ", "r", "e", "g", "e", "n", "e", "r", "a", "t", "e">>]
rsa_private_key ==
    [name |-> "rsa_private_key", category |-> "Cryptography", severity |-> "critical",
     pattern |-> Cat(<<Lit(<<"-", "-", "-", "-", "-", "B", "E", "G", "I", "N">>), ClsMin(Spaces, 1),
                       Opt(Cat(<<Lit(<<"R", "S", "A">>), ClsMin(Spaces, 1)>>)),
                       Lit(<<"P", "R", "I", "V", "A", "T", "E">>), ClsMin(Spaces, 1), Lit(<<"K", "E", "Y", "-", "-", "-", "-", "-">>)>>),
     source |-> <<"-", "-", "-", "-", "-", "B", "E", "G", "I", "N", "\\", "s", "+", "(", "R", "S", "A", "\\", "s", "+", ")", "?", "P", "R", "I", "V", "A", "T", "E", "\\", "s", "+", "K", "E", "Y", "-", "-", "-", "-", "-">>,
     validator |-> "", minLength |-> 0,
     recommendation |-> <<"R", "e", "v", "o", "k", "e", " ", "a", "n", "d", " ", "r", "e", "g", "e", "n", "e", "r", "a", "t", "e", " ", "R", "S", "A", " ", "k", "e", "y", " ", "p", "a", "i", "r">>]
heroku_api_key ==
    [name |-> "heroku_api_key", category |-> "Platform", severity |-> "high",
     pattern |-> Cat(<<Cls(HexChars, 8, 8), Lit(<<"-">>), Cls(HexChars, 4, 4), Lit(<<"-">>),
                       Cls(HexChars, 4, 4), Lit(<<"-">>), Cls(HexChars, 4, 4), Lit(<<"-">>),
                       Cls(HexChars, 12, 12)>>),
     source |-> <<"[", "0", "-", "9", "a", "-", "f", "]", "{", "8", "}", "-", "[", "0", "-", "9", "a", "-", "f", "]", "{", "4", "}", "-", "[", "0", "-", "9", "a", "-", "f", "]", "{", "4", "}", "-", "[", "0", "-", "9", "a", "-", "f", "]", "{", "4", "}", "-", "[", "0", "-", "9", "a", "-", "f", "]", "{", "1", "2", "}">>,
     validator |-> "heroku_api_key", minLength |-> 0,
     recommendation |-> <<"R", "e", "g", "e", "n", "e", "r", "a", "t", "e", " ", "H", "e", "r", "o", "k", "u", " ", "A", "P", "I", " ", "k", "e", "y">>]

secretPatterns ==
    <<aws_access_key_id, stripe_api_key, api_key_generic, jwt_token, rsa_private_key,
      heroku_api_key>>

(***************************************************************************)
(* SecretDetector (SecretDetector.ts)                                      *)
(***************************************************************************)
MAX_FILE_SIZE == 10 * 1024 * 1024
maxLines == 100000
MaxSecretLength == 40   \* the longest value isValidSecret accepts, 10000 in the code

\* code.split('\n')
RECURSIVE split(_, _)
split(s, sep) ==
    IF \E i \in 1..Len(s) : s[i] = sep
    THEN LET i == CHOOSE j \in 1..Len(s) : s[j] = sep /\ \A k \in 1..(j - 1) : s[k] # sep
         IN  <<SubSeq(s, 1, i - 1)>> \o split(SubSeq(s, i + 1, Len(s)), sep)
    ELSE <<s>>

\* lines.join('\n')
RECURSIVE join(_, _)
join(ss, sep) ==
    IF ss = <<>> THEN <<>>
    ELSE IF Len(ss) = 1 THEN ss[1]
    ELSE ss[1] \o <<sep>> \o join(Tail(ss), sep)

\* String.prototype.trim
WhiteSpace == Spaces \cup {"\n"}
RECURSIVE trimStart(_)
trimStart(s) == IF s # <<>> /\ Head(s) \in WhiteSpace THEN trimStart(Tail(s)) ELSE s
RECURSIVE trimEnd(_)
trimEnd(s) ==
    IF s # <<>> /\ s[Len(s)] \in WhiteSpace THEN trimEnd(SubSeq(s, 1, Len(s) - 1)) ELSE s
trim(s) == trimEnd(trimStart(s))

falsePositives ==
    <<<<"e", "x", "a", "m", "p", "l", "e">>, <<"s", "a", "m", "p", "l", "e">>, <<"t", "e", "s", "t">>, <<"d", "u", "m", "m", "y">>, <<"p", "l", "a", "c", "e", "h", "o", "l", "d", "e", "r">>, <<"y", "o", "u", "r", "_", "k", "e", "y", "_", "h", "e", "r", "e">>,
      <<"y", "o", "u", "r", "_", "s", "e", "c", "r", "e", "t", "_", "h", "e", "r", "e">>, <<"c", "h", "a", "n", "g", "e", "m", "e">>, <<"x", "x", "x">>, <<"0", "0", "0", "0", "0", "0", "0", "0">>, <<"1", "2", "3", "4", "5", "6", "7", "8">>,
      <<"p", "a", "s", "s", "w", "o", "r", "d">>, <<"s", "e", "c", "r", "e", "t">>, <<"k", "e", "y">>, <<"t", "o", "k", "e", "n">>, <<"a", "p", "i", "_", "k", "e", "y">>, <<"a", "p", "i", "_", "s", "e", "c", "r", "e", "t">>,
      <<"n", "o", "t", "_", "a", "_", "r", "e", "a", "l">>, <<"f", "a", "k", "e">>, <<"m", "o", "c", "k">>, <<"s", "t", "u", "b">>>>

\* /^(.)\1+$/.test(value): one character, repeated at least once
allSameCharacters(value) ==
    /\ Len(value) >= 2
    /\ value[1] \notin {"\n", "\r"}
    /\ \A i \in 1..Len(value) : value[i] = value[1]

\* pattern.validator(value)
validator(pattern, value) ==
    CASE pattern.validator = "jwt_token" -> Len(split(value, ".")) = 3
      [] pattern.validator = "heroku_api_key" -> FALSE

\* isValidSecret with the validator, where there is one, in place of the
\* generic checks.
isValidSecretValidatorFirst(value, pattern, filePath) ==
    LET lowerValue == trim(toLowerCase(value))
    IN  IF Len(value) = 0 THEN FALSE
        ELSE IF pattern.validator # "" THEN validator(pattern, value)
        ELSE IF \E i \in 1..Len(falsePositives) :
                    lowerValue = falsePositives[i] \/ includes(lowerValue, falsePositives[i])
             THEN FALSE
        ELSE IF allSameCharacters(value) THEN FALSE
        ELSE IF pattern.minLength # 0 /\ Len(value) < pattern.minLength THEN FALSE
        ELSE IF Len(value) > MaxSecretLength THEN FALSE
        ELSE TRUE

\* isValidSecret with the denylist compared to the whole value only.
isValidSecretExact(value, pattern, filePath) ==
    LET lowerValue == trim(toLowerCase(value))
    IN  IF Len(value) = 0 THEN FALSE
        ELSE IF \E i \in 1..Len(falsePositives) : lowerValue = falsePositives[i]
             THEN FALSE
        ELSE IF allSameCharacters(value) THEN FALSE
        ELSE IF pattern.minLength # 0 /\ Len(value) < pattern.minLength THEN FALSE
        ELSE IF Len(value) > MaxSecretLength THEN FALSE
        ELSE IF pattern.validator # "" THEN validator(pattern, value)
        ELSE TRUE

isValidSecretLax(value, pattern, filePath) ==
    IF Len(value) = 0 THEN FALSE
    ELSE IF pattern.validator # "" THEN validator(pattern, value)
    ELSE TRUE
isValidSecret(value, pattern, filePath) ==
    LET lowerValue == trim(toLowerCase(value))
    IN  IF Len(value) = 0 THEN FALSE
        ELSE IF \E i \in 1..Len(falsePositives) :
                    lowerValue = falsePositives[i] \/ includes(lowerValue, falsePositives[i])
             THEN FALSE
        ELSE IF allSameCharacters(value) THEN FALSE
        ELSE IF pattern.minLength # 0 /\ Len(value) < pattern.minLength THEN FALSE
        ELSE IF Len(value) > MaxSecretLength THEN FALSE
        ELSE IF pattern.validator # "" THEN validator(pattern, value)
        ELSE TRUE

substring(s, from, to) == SubSeq(s, from + 1, to)

maskSecretMedium(secret) ==
    substring(secret, 0, 4) \o <<"*", "*", "*", "*">> \o substring(secret, Len(secret) - 4, Len(secret))
maskSecret(secret) ==
    IF Len(secret) = 0 THEN <<"*", "*", "*", "*">>
    ELSE IF Len(secret) <= 4 THEN <<"*", "*", "*", "*">>
    ELSE IF Len(secret) <= 8 THEN substring(secret, 0, 2) \o <<"*", "*", "*", "*">>
    ELSE IF Len(secret) <= 32
         THEN substring(secret, 0, 4) \o <<"*", "*", "*", "*">> \o substring(secret, Len(secret) - 4, Len(secret))
    ELSE substring(secret, 0, 6) \o <<"*", "*", "*", "*">> \o substring(secret, Len(secret) - 6, Len(secret))

\* lineIndex counts from 0, as in the code
getContext(lines, lineIndex, contextLines) ==
    LET start == Max(0, lineIndex - contextLines)
        end == Min(Len(lines), lineIndex + contextLines + 1)
    IN  join(SubSeq(lines, start + 1, end), "\n")

\* The matches of one signature on one line: for each the matched text,
\* whether isValidSecret accepts it, and the detection pushed if it does.
detectionsOf(lines, lineIndex, pattern, filePath) ==
    LET line == lines[lineIndex + 1]
        valid == matchPattern(line, pattern)
    IN  [i \in 1..Len(valid) |->
            [raw |-> valid[i].value,
             valid |-> isValidSecret(valid[i].value, pattern, filePath),
             detection |->
                [type |-> pattern.name,
                 category |-> pattern.category,
                 severity |-> pattern.severity,
                 value |-> maskSecret(valid[i].value),
                 line |-> lineIndex + 1,
                 column |-> valid[i].index + 1,
                 context |-> getContext(lines, lineIndex, 2),
                 pattern |-> pattern.source,
                 recommendation |-> pattern.recommendation]]]

scanLineAll(lines, lineIndex, filePath) ==
    Flatten([k \in 1..Len(secretPatterns) |->
                detectionsOf(lines, lineIndex, secretPatterns[k], filePath)])

\* The loop body of scan: one line against every signature, in table order.
scanLine(lines, lineIndex, filePath) ==
    LET trimmedLine == trim(lines[lineIndex + 1])
    IN  IF \/ Len(trimmedLine) = 0
           \/ startsWith(trimmedLine, <<"/", "/">>)
           \/ startsWith(trimmedLine, <<"#">>)
        THEN <<>>
        ELSE Flatten([k \in 1..Len(secretPatterns) |->
                        detectionsOf(lines, lineIndex, secretPatterns[k], filePath)])

\* scan(code, filePath) as the matches it goes through, in loop order
scanMatches(code, filePath) ==
    IF Len(code) = 0 THEN <<>>
    ELSE LET truncated == IF Len(code) > MAX_FILE_SIZE
                          THEN substring(code, 0, MAX_FILE_SIZE) ELSE code
             lines == split(truncated, "\n")
             linesToProcess == Min(Len(lines), maxLines)
         IN  Flatten([i \in 1..linesToProcess |-> scanLine(lines, i - 1, filePath)])

\* The matches isValidSecret accepted.
accepted(found) == SelectSeq(found, LAMBDA m : m.valid)

\* const detections = []; ... detections.push(...); return detections
detectionsKept(found) ==
    LET valid == accepted(found)
    IN  sc.detections \o [i \in 1..Len(valid) |-> valid[i].detection]
detectionsPushed(found) ==
    LET valid == accepted(found)
    IN  [i \in 1..Len(valid) |-> valid[i].detection]

scan(code, filePath) == detectionsPushed(scanMatches(code, filePath))

\* The text each pushed detection was made from.
rawsPushed(found) ==
    LET valid == accepted(found)
    IN  [i \in 1..Len(valid) |-> valid[i].raw]
scanRaws(code, filePath) == rawsPushed(scanMatches(code, filePath))

(***************************************************************************)
(* The texts scanned: up to MaxCodeLines lines, each from CodeLines.        *)
(***************************************************************************)
MaxCodeLines == 2

CodeLines ==
    {<<"c", "o", "n", "s", "t", " ", "k", " ", "=", " ", "'", "A", "K", "I", "A", "A", "B", "C", "D", "E", "F", "G", "H", "I", "J", "K", "L", "M", "N", "O", "P", "'", ";">>,
     <<"/", "/", " ", "A", "K", "I", "A", "A", "B", "C", "D", "E", "F", "G", "H", "I", "J", "K", "L", "M", "N", "O", "P">>,
     <<>>,
     <<"a", "p", "i", "_", "k", "e", "y", " ", "=", " ", "\"", "e", "x", "a", "m", "p", "l", "e", "\"">>,
     <<"-", "-", "-", "-", "-", "B", "E", "G", "I", "N", " ", "R", "S", "A", " ", "P", "R", "I", "V", "A", "T", "E", " ", "K", "E", "Y", "-", "-", "-", "-", "-">>,
     <<" ", " ", "#", " ", "i", "d", " ", "0", "1", "2", "3", "4", "5", "6", "7", "-", "8", "9", "a", "b", "-", "c", "d", "e", "f", "-", "0", "1", "2", "3", "-", "4", "5", "6", "7", "8", "9", "a", "b", "c", "d", "e", "f">>,
     <<"i", "d", ":", " ", "0", "1", "2", "3", "4", "5", "6", "7", "-", "8", "9", "a", "b", "-", "c", "d", "e", "f", "-", "0", "1", "2", "3", "-", "4", "5", "6", "7", "8", "9", "a", "b", "c", "d", "e", "f", " ", "e", "y", "J", "t", "o", "k", "e", "n", "A", ".", "e", "y", "J", "z", "d", "W", "I", "i", "O", ".", "a", "b", "c", "d", "e", "f", "g", "h", "i", "j", "1">>,
     <<"p", "a", "y", "(", "s", "k", "_", "l", "i", "v", "e", "_", "a", "b", "c", "d", "e", "f", "g", "h", "i", "j", "k", "l", "m", "n", "o", "p", "q", "r", "s", "t", "u", "v", "w", "x", ",", " ", "A", "K", "I", "A", "Q", "R", "S", "T", "U", "V", "W", "X", "Y", "Z", "0", "1", "2", "3", "4", "5", ")">>,
     <<"j", "w", "t", "=", "e", "y", "J", "h", "b", "G", "c", "i", "O", "i", ".", "e", "y", "J", "z", "d", "W", "I", "i", "O", "i", ".", "S", "f", "l", "K", "x", "w", "R", "J", "S", "M", "e", "K", "K", "F">>,
     <<"k", "(", "r", "k", "_", "l", "i", "v", "e", "_", "a", "b", "c", "d", "e", "f", "g", "h", "i", "j", "k", "l", "m", "n", "o", "p", "q", "r", "s", "t", "u", "v", "w", "x", "y", "z", "a", "b", "c", "d", "e", "f", "g", "h", ",", " ", "A", "K", "I", "A", "Z", "Y", "X", "W", "V", "U", "T", "S", "R", "Q", "P", "O", "N", "M", "L", "K", ",", " ", "A", "K", "I", "A", "M", "N", "B", "V", "C", "X", "Z", "L", "K", "J", "H", "G", "F", "D", "S", "A", ")">>}

Codes ==
    {join(ls, "\n") : ls \in UNION {[1..n -> CodeLines] : n \in 0..MaxCodeLines}}
FilePaths == {<<>>, <<"s", "r", "c", "/", "_", "_", "t", "e", "s", "t", "s", "_", "_", "/", "a", "p", "p", ".", "t", "e", "s", "t", ".", "j", "s">>}

othersScan == <<now, breaker, calls, hist, rt, buckets, waits, lhist, tasks, files, scanCall, fhist, scans, an, srv>>

\* The texts scanned between two scans of the same text, and the strings
\* maskSecret is applied to on their own: one of each length up to 36.
OtherCodes == {Tree[2].content}
SecretChars ==
    <<"a", "b", "c", "d", "e", "f", "g", "h", "i", "j", "k", "l", "m", "n", "o", "p", "q", "r", "s", "t", "u", "v", "w", "x", "y", "z", "0", "1", "2", "3", "4", "5", "6", "7", "8", "9">>
Secrets == {SubSeq(SecretChars, 1, n) : n \in 0..Len(SecretChars)}

\* await secretDetector.scan(code, filePath), the first call
Scan(code, filePath) ==
    /\ sc.pc = "idle"
    /\ \E found \in {scanMatches(code, filePath)} :
          sc' = [ScanInit EXCEPT !.pc = "done", !.code = code, !.filePath = filePath,
                                 !.detections = detectionsPushed(found),
                                 !.raws = rawsPushed(found),
                                 !.matches = found]
    /\ UNCHANGED othersScan

\* await secretDetector.scan(code, filePath) of another text, after the
\* first call
ScanOther(code, filePath) ==
    /\ sc.pc = "done"
    /\ \E found \in {scanMatches(code, filePath)} :
          sc' = [sc EXCEPT !.pc = "between", !.other = detectionsPushed(found)]
    /\ UNCHANGED othersScan

\* await secretDetector.scan(code, filePath) with the arguments of the first
\* call, again
Rescan ==
    /\ sc.pc \in {"done", "between"}
    /\ \E found \in {scanMatches(sc.code, sc.filePath)} :
          sc' = [sc EXCEPT !.pc = "again", !.again = detectionsPushed(found)]
    /\ UNCHANGED othersScan

\* maskSecret(secret), applied to a string on its own
MaskSecret(secret) ==
    /\ sc.pc = "idle"
    /\ sc' = [ScanInit EXCEPT !.pc = "masked", !.secret = secret,
                              !.masked = maskSecret(secret)]
    /\ UNCHANGED othersScan

InitScan ==
    /\ now = ClockStart
    /\ breaker = BreakerInit
    /\ calls = [c \in Callers |-> CallInit]
    /\ hist = HistInit
    /\ rt = RetryInit
    /\ buckets = BucketsInit
    /\ waits = [c \in Waiters |-> WaitInit]
    /\ lhist = LimiterHistInit
    /\ sc = ScanInit
    /\ tasks = TasksInit
    /\ files = <<>>
    /\ scanCall = ScanCallInit
    /\ fhist = FetchHistInit
    /\ scans = <<>>
    /\ an = <<>>
    /\ srv = <<>>

NextScan ==
    \/ \E code \in Codes, filePath \in FilePaths : Scan(code, filePath)
    \/ \E code \in OtherCodes, filePath \in FilePaths : ScanOther(code, filePath)
    \/ Rescan
    \/ \E secret \in Secrets : MaskSecret(secret)

SpecScan == InitScan /\ [][NextScan]_vars

\* C4: no field of a Detection returned by scan (value, context, pattern,
\* recommendation) contains the raw text the detection was made from.
C4_NoRawValue ==
    \A i \in 1..Len(sc.detections) :
        LET d == sc.detections[i]
            raw == sc.raws[i]
        IN  /\ ~includes(d.value, raw)
            /\ ~includes(d.context, raw)
            /\ ~includes(d.pattern, raw)
            /\ ~includes(d.recommendation, raw)

\* The mask of a text by its length, as the bands are stated.
BandMask(raw) ==
    IF Len(raw) <= 4 THEN <<"*", "*", "*", "*">>
    ELSE IF Len(raw) <= 8 THEN SubSeq(raw, 1, 2) \o <<"*", "*", "*", "*">>
    ELSE IF Len(raw) <= 32
         THEN SubSeq(raw, 1, 4) \o <<"*", "*", "*", "*">> \o SubSeq(raw, Len(raw) - 3, Len(raw))
    ELSE SubSeq(raw, 1, 6) \o <<"*", "*", "*", "*">> \o SubSeq(raw, Len(raw) - 5, Len(raw))

\* C13: the value of every Detection is the mask of the matched text by
\* length band: up to 4 characters '****', 5 to 8 the first 2 and '****',
\* 9 to 32 the first 4, '****' and the last 4, longer the first 6, '****'
\* and the last 6; maskSecret gives the same on any string.
C13_MaskBands ==
    /\ \A i \in 1..Len(sc.detections) : sc.detections[i].value = BandMask(sc.raws[i])
    /\ sc.pc = "masked" => sc.masked = BandMask(sc.secret)

\* A scan has returned a detection of a match longer than 32 characters and
\* one of a match of 9 to 32.
C13_Witness ==
    /\ sc.pc = "done"
    /\ \E i \in 1..Len(sc.detections) : Len(sc.raws[i]) > 32
    /\ \E i \in 1..Len(sc.detections) : Len(sc.raws[i]) \in 9..32

\* The signature of the table with the given name.
patternNamed(name) ==
    secretPatterns[CHOOSE k \in 1..Len(secretPatterns) : secretPatterns[k].name = name]

\* The grounds a match is rejected on, as stated: a denylist word, one
\* character repeated, too short for its signature, too long.
Denied(value) ==
    \E i \in 1..Len(falsePositives) :
        \/ trim(toLowerCase(value)) = falsePositives[i]
        \/ includes(trim(toLowerCase(value)), falsePositives[i])
Repeated(value) == Len(value) >= 2 /\ \A i \in 1..Len(value) : value[i] = value[1]
TooShort(value, pattern) == pattern.minLength # 0 /\ Len(value) < pattern.minLength
TooLong(value) == Len(value) > MaxSecretLength

\* The detections of a scan made on line number n.
OnLine(n) == {i \in 1..Len(sc.detections) : sc.detections[i].line = n}

\* C14: a match whose lower-cased, trimmed text equals or contains a
\* denylist word, that is one character repeated, that is shorter than the
\* minimum length of its signature or that is longer than the longest value
\* accepted produces no Detection; a line api_key = "example" has none.
C14_Rejected ==
    /\ \A i \in 1..Len(sc.matches) :
          (\/ Denied(sc.matches[i].raw)
           \/ Repeated(sc.matches[i].raw)
           \/ TooShort(sc.matches[i].raw, patternNamed(sc.matches[i].detection.type))
           \/ TooLong(sc.matches[i].raw))
            => /\ ~sc.matches[i].valid
               /\ \A k \in 1..Len(sc.detections) :
                     sc.detections[k] # sc.matches[i].detection
    /\ \A n \in 1..Len(split(sc.code, "\n")) :
          split(sc.code, "\n")[n] = <<"a", "p", "i", "_", "k", "e", "y", " ", "=", " ", "\"", "e", "x", "a", "m", "p", "l", "e", "\"">> => OnLine(n) = {}

\* A scan has gone through a match with a denylist word in it and through
\* one that is too long, next to a match it has kept.
C14_Witness ==
    /\ sc.pc = "done"
    /\ \E i \in 1..Len(sc.matches) : Denied(sc.matches[i].raw) /\ ~TooLong(sc.matches[i].raw)
    /\ \E i \in 1..Len(sc.matches) : TooLong(sc.matches[i].raw) /\ ~Denied(sc.matches[i].raw)
    /\ Len(sc.detections) > 0

\* A line scan passes over, as stated: empty once trimmed, or beginning
\* once trimmed with // or #.
Skipped(line) ==
    \/ trim(line) = <<>>
    \/ Len(trim(line)) >= 2 /\ SubSeq(trim(line), 1, 2) = <<"/", "/">>
    \/ Len(trim(line)) >= 1 /\ trim(line)[1] = "#"

\* A key on a code line and the same key on a comment line after it.
KeyTwice == <<"c", "o", "n", "s", "t", " ", "k", " ", "=", " ", "'", "A", "K", "I", "A", "A", "B", "C", "D", "E", "F", "G", "H", "I", "J", "K", "L", "M", "N", "O", "P", "'", ";", "\n", "/", "/", " ", "A", "K", "I", "A", "A", "B", "C", "D", "E", "F", "G", "H", "I", "J", "K", "L", "M", "N", "O", "P">>

\* C15: scan matches no signature on a line that is empty after trimming
\* or begins, after trimming, with // or #: no detection is on such a line,
\* and a key that is on a code line and again on a comment line gives one
\* detection, on the code line.
C15_SkippedLines ==
    /\ \A i \in 1..Len(sc.matches) :
          ~Skipped(split(sc.code, "\n")[sc.matches[i].detection.line])
    /\ (sc.pc = "done" /\ sc.code = KeyTwice)
          => /\ Len(sc.detections) = 1
             /\ sc.detections[1].type = "aws_access_key_id"
             /\ sc.detections[1].severity = "critical"
             /\ sc.detections[1].line = 1

\* The key on a code line and on a comment line has been scanned.
C15_Witness ==
    /\ sc.pc = "done"
    /\ sc.code = KeyTwice
    /\ Len(sc.detections) = 1

\* The place of a signature in the table.
tableIndex(name) == CHOOSE k \in 1..Len(secretPatterns) : secretPatterns[k].name = name

\* Detection d comes before detection e: by line, then by the table, then by
\* the place of the match in the line.
Before(d, e) ==
    \/ d.line < e.line
    \/ d.line = e.line /\ tableIndex(d.type) < tableIndex(e.type)
    \/ d.line = e.line /\ d.type = e.type /\ d.column < e.column

Validated ==
    {i \in 1..Len(sc.matches) : patternNamed(sc.matches[i].detection.type).validator # ""}

\* A generic check of isValidSecret rejects the value.
GenericRejects(value, pattern) ==
    Denied(value) \/ Repeated(value) \/ TooShort(value, pattern) \/ TooLong(value)

\* C23 as stated: a match of a signature with a validator is accepted exactly
\* when the validator returns true, whatever the denylist, repeated-character
\* and length checks say.
C23_ValidatorDecides ==
    \A i \in Validated :
        sc.matches[i].valid
            <=> validator(patternNamed(sc.matches[i].detection.type), sc.matches[i].raw)

\* C23, amended: a match of a signature with a validator is accepted exactly
\* when no generic check (denylist, repeated character, length) rejects it
\* and the validator returns true; a match the validator returns false for
\* gives no detection, and neither does one a generic check rejects, though
\* the validator would return true for it.
C23_ValidatorAfterGeneric ==
    \A i \in Validated :
        /\ sc.matches[i].valid
              <=> /\ ~GenericRejects(sc.matches[i].raw,
                                     patternNamed(sc.matches[i].detection.type))
                  /\ validator(patternNamed(sc.matches[i].detection.type),
                               sc.matches[i].raw)
        /\ ~sc.matches[i].valid =>
              \A k \in 1..Len(sc.detections) : sc.detections[k] # sc.matches[i].detection

\* A scan has gone through a JWT it accepted, a JWT with a denylist word in
\* it that the validator returns true for, and a match the Heroku validator
\* returned false for.
C23_Witness ==
    /\ sc.pc = "done"
    /\ \E i \in Validated :
          /\ sc.matches[i].detection.type = "jwt_token"
          /\ sc.matches[i].valid
    /\ \E i \in Validated :
          /\ sc.matches[i].detection.type = "jwt_token"
          /\ Denied(sc.matches[i].raw)
          /\ validator(jwt_token, sc.matches[i].raw)
          /\ ~sc.matches[i].valid
    /\ \E i \in Validated :
          /\ sc.matches[i].detection.type = "heroku_api_key"
          /\ ~GenericRejects(sc.matches[i].raw, heroku_api_key)
          /\ ~sc.matches[i].valid

\* The signatures of the table whose pattern has a denylist word in its
\* literal text: `key' in both.
RequireDenied == {"api_key_generic", "rsa_private_key"}

MaxFilesPerScan == 1   \* config.MAX_FILES_PER_SCAN, 10000 by default
BatchSize == 2         \* batchSize of getFilesRecursive, 10 in the code

maxFilesPerScan == MaxFilesPerScan
maxFileSize == MAX_FILE_SIZE

binaryExtensions ==
    <<<<".", "p", "n", "g">>, <<".", "j", "p", "g">>, <<".", "j", "p", "e", "g">>, <<".", "g", "i", "f">>, <<".", "s", "v", "g">>, <<".", "i", "c", "o">>, <<".", "p", "d", "f">>, <<".", "z", "i", "p">>,
      <<".", "t", "a", "r">>, <<".", "g", "z">>, <<".", "e", "x", "e">>, <<".", "d", "l", "l">>, <<".", "s", "o">>, <<".", "d", "y", "l", "i", "b">>, <<".", "b", "i", "n">>, <<".", "w", "o", "f", "f">>,
      <<".", "w", "o", "f", "f", "2">>, <<".", "t", "t", "f">>, <<".", "m", "p", "4">>, <<".", "m", "p", "3">>, <<".", "a", "v", "i">>, <<".", "m", "o", "v">>, <<".", "w", "e", "b", "m">>, <<".", "j", "a", "r">>,
      <<".", "w", "a", "r">>, <<".", "e", "a", "r">>, <<".", "c", "l", "a", "s", "s">>, <<".", "p", "y", "c">>>>
isBinary(path) ==
    \E i \in 1..Len(binaryExtensions) : endsWith(toLowerCase(path), binaryExtensions[i])

skipDirs ==
    <<<<"n", "o", "d", "e", "_", "m", "o", "d", "u", "l", "e", "s">>, <<".", "g", "i", "t">>, <<"d", "i", "s", "t">>, <<"b", "u", "i", "l", "d">>, <<".", "n", "e", "x", "t">>, <<"v", "e", "n", "d", "o", "r">>,
      <<"_", "_", "p", "y", "c", "a", "c", "h", "e", "_", "_">>>>
inSkipDir(path) ==
    \E i \in 1..Len(skipDirs) :
        \/ includes(path, <<"/">> \o skipDirs[i] \o <<"/">>)
        \/ startsWith(path, skipDirs[i] \o <<"/">>)

\* What the request rejects with: Octokit's RequestError or a network error,
\* none of them an AppError.
ApiErrors ==
    { PlainError(<<"N", "o", "t", " ", "F", "o", "u", "n", "d">>), PlainError(<<"S", "e", "r", "v", "e", "r", " ", "E", "r", "r", "o", "r">>),
      PlainError(<<"A", "P", "I", " ", "r", "a", "t", "e", " ", "l", "i", "m", "i", "t", " ", "e", "x", "c", "e", "e", "d", "e", "d">>) }

\* error.message.includes('Not Found') || error.message.includes('404')
isNotFound(error) ==
    /\ error.kind # "value"
    /\ includes(error.message, <<"N", "o", "t", " ", "F", "o", "u", "n", "d">>) \/ includes(error.message, <<"4", "0", "4">>)

\* The catch block of getFileContent: "null" when it returns null, "throw"
\* when the error leaves the function.
getFileContentRethrow(error) == "throw"
getFileContentCatch(error) == "null"
\* The catch block of getFilesRecursive: "return" when the error is dropped.
getFilesRecursiveCatch(error) == "return"

\* The catch block of getRepositoryFiles: the error it throws for the one it
\* caught.
mapError(error) ==
    IF error.kind # "value" /\ isNotFound(error)
    THEN RepositoryAccessError(<<"R", "e", "p", "o", "s", "i", "t", "o", "r", "y", " ", "o", "/", "r", " ", "n", "o", "t", " ", "f", "o", "u", "n", "d", " ", "o", "r", " ", "n", "o", "t", " ", "a", "c", "c", "e", "s", "s", "i", "b", "l", "e">>)
    ELSE IF /\ error.kind # "value"
            /\ includes(error.message, <<"r", "a", "t", "e", " ", "l", "i", "m", "i", "t">>) \/ includes(error.message, <<"4", "0", "3">>)
    THEN RateLimitError(<<"G", "i", "t", "H", "u", "b", " ", "A", "P", "I", " ", "r", "a", "t", "e", " ", "l", "i", "m", "i", "t", " ", "e", "x", "c", "e", "e", "d", "e", "d">>)
    ELSE IF error.kind # "value" /\ includes(error.message, <<"t", "i", "m", "e", "o", "u", "t">>)
    THEN TimeoutError(<<"R", "e", "q", "u", "e", "s", "t", " ", "t", "o", " ", "G", "i", "t", "H", "u", "b", " ", "A", "P", "I", " ", "t", "i", "m", "e", "d", " ", "o", "u", "t">>)
    ELSE GitHubAPIError(<<"F", "a", "i", "l", "e", "d", " ", "t", "o", " ", "f", "e", "t", "c", "h", " ", "r", "e", "p", "o", "s", "i", "t", "o", "r", "y", " ", "f", "i", "l", "e", "s", ":", " ">> \o error.message)

\* The function that runs for path n: the path argument of the scan goes to
\* getFileContent, whatever it is; in the recursion directories go to
\* getFilesRecursive and files to getFileContent.
fnOf(w, n) ==
    IF w.scanCall.path = n THEN "getFileContent"
    ELSE IF Tree[n].type = "dir" THEN "getFilesRecursive"
    ELSE "getFileContent"

\* The caller awaiting the call for path n: 0 is getRepositoryFiles, another
\* number the getFilesRecursive call of the directory that lists n.
callerOf(w, n) ==
    IF w.scanCall.path = n \/ n = Root THEN 0
    ELSE CHOOSE p \in Node : \E i \in 1..Len(Tree[p].entries) : Tree[p].entries[i] = n

\* data.slice(i, i + batchSize), for the batch numbered b from 0
batchOf(p, b) ==
    SubSeq(Tree[p].entries, b * BatchSize + 1, Min((b + 1) * BatchSize, Len(Tree[p].entries)))

ScanTimeout == 45000   \* config.SCAN_TIMEOUT, 300000 by default
defaultMaxWait == 60000

\* secretDetector.scan(file.content, file.path) for each file of the tree
detectionsIn == [n \in Node |-> scan(Tree[n].content, Tree[n].path)]

RECURSIVE SumLen(_)
SumLen(results) ==
    IF results = <<>> THEN 0 ELSE Len(Head(results).detections) + SumLen(Tail(results))

\* The second half of scanPromise: the files are scanned in order, a file
\* whose scan throws is passed over (bad is that file, 0 when there is none),
\* and the report is made.
RECURSIVE scanResults(_, _)
scanResults(fs, bad) ==
    IF fs = <<>> THEN <<>>
    ELSE IF /\ Tree[Head(fs)].type = "file" /\ Tree[Head(fs)].content # <<>>
            /\ Head(fs) # bad
            /\ Len(scans[Head(fs)]) > 0
    THEN <<[file |-> Tree[Head(fs)].path, detections |-> scans[Head(fs)]]>>
             \o scanResults(Tail(fs), bad)
    ELSE scanResults(Tail(fs), bad)
reportOf(fs, results) ==
    [totalFilesScanned |-> Len(fs), filesWithSecrets |-> Len(results),
     totalSecretsFound |-> SumLen(results), results |-> results]

\* The state the fetch works on, as one record; e is the moment: e.now is
\* Date.now(), e.bad the file whose scan throws.
World ==
    [tasks |-> tasks, files |-> files, breaker |-> breaker, buckets |-> buckets,
     scanCall |-> scanCall, fhist |-> fhist]

\* Promise.race([scanPromise, timeoutPromise]): the first to settle decides
\* the answer of the call c; a later one changes nothing.
raceLastWins(c, settled) == settled
race(c, settled) == IF c.response = "none" THEN settled ELSE c

\* The call once scanPromise has run to its end over the files fetched.
Returned(w, e) ==
    [w.scanCall EXCEPT !.pipeline = "returned", !.scanned = w.files,
                       !.results = scanResults(w.files, e.bad), !.scanFault = e.bad,
                       !.late = (w.scanCall.timer = "fired")]

\* scanPromise resolves: getRepositoryFiles has returned files, they are
\* scanned and the report is made.
Resolve(w, e) ==
    [w EXCEPT !.scanCall =
        race(Returned(w, e),
             [Returned(w, e) EXCEPT !.response = "report", !.error = undefined,
                                    !.report = reportOf(w.files, Returned(w, e).results)])]

\* scanPromise rejects: getRepositoryFiles has thrown error.
Reject(w, error) ==
    LET c1 == [w.scanCall EXCEPT !.pipeline = "threw", !.thrown = error,
                                 !.late = (w.scanCall.timer = "fired")]
    IN  [w EXCEPT !.scanCall =
            race(c1, [c1 EXCEPT !.response = "error", !.error = error, !.report = <<>>])]

\* The call for path n is over.
Done(w, n, result) ==
    [w EXCEPT !.tasks[n] = [TaskInit EXCEPT !.pc = "done", !.result = result,
                                            !.orphan = w.tasks[n].orphan]]

\* What a stretch of code leaves behind: the state, and the continuations
\* it has queued (the microtask queue), in order.  A continuation is
\* "item" (the closure of batch.map for an entry), "up" (the await of the
\* call for path n resolves) or "thrown" (it rejects with error).
Out(w, q) == [w |-> w, q |-> q]
Item(n) == [op |-> "item", n |-> n, error |-> undefined]
UpFrom(n) == [op |-> "up", n |-> n, error |-> undefined]
ThrownFrom(n, error) == [op |-> "thrown", n |-> n, error |-> error]

\* getFilesRecursive returns for path n.
Settle(w, n, result) == Out(Done(w, n, result), <<UpFrom(n)>>)

\* getFileContent returns for path n, a file or null; its caller pushes the
\* file.
SettleFile(w, n, hasContent) ==
    IF hasContent
    THEN Out([Done(w, n, "file") EXCEPT !.files = Append(@, n)], <<UpFrom(n)>>)
    ELSE Settle(w, n, "null")

\* The catch block of the function running for path n.
Caught(w, n, error) ==
    IF fnOf(w, n) = "getFileContent"
    THEN IF getFileContentCatch(error) = "null"
         THEN SettleFile(w, n, FALSE)
         ELSE Out(Done(w, n, "threw"), <<ThrownFrom(n, error)>>)
    ELSE IF getFilesRecursiveCatch(error) = "return"
         THEN Settle(w, n, "skipped")
         ELSE Out(Done(w, n, "threw"), <<ThrownFrom(n, error)>>)

\* The remote call for path n has failed with error.
Failed(w, n, error) == Caught([w EXCEPT !.fhist.failed[n] = error], n, error)

\* execute() handing the token back when the breaker rejects the call.
ExecuteRefunds(w, n, t) ==
    IF Admits(w.breaker, t)
    THEN Out([w EXCEPT !.breaker = AfterEntry(w.breaker, t),
                       !.tasks[n] = [@ EXCEPT !.pc = "api", !.wait = WaitInit, !.start = t,
                                              !.retry = [RetryInit EXCEPT !.pc = "attempt",
                                                             !.maxRetries = MAX_RETRIES]]],
             <<>>)
    ELSE Failed([w EXCEPT !.buckets["github-api"].tokens = @ + TokenScale], n, CircuitBreakerError(<<"C", "i", "r", "c", "u", "i", "t", " ", "b", "r", "e", "a", "k", "e", "r", " ", "i", "s", " ", "O", "P", "E", "N", ".", " ", "S", "e", "r", "v", "i", "c", "e", " ", "i", "s", " ", "u", "n", "a", "v", "a", "i", "l", "a", "b", "l", "e", ".">>))

\* circuitBreaker.execute(() => retry(() => octokit.repos.getContent(...)))
\* up to the await of the race.
Execute(w, n, t) ==
    IF Admits(w.breaker, t)
    THEN Out([w EXCEPT !.breaker = AfterEntry(w.breaker, t),
                       !.tasks[n] = [@ EXCEPT !.pc = "api", !.wait = WaitInit, !.start = t,
                                              !.retry = [RetryInit EXCEPT !.pc = "attempt",
                                                             !.maxRetries = MAX_RETRIES]]],
             <<>>)
    ELSE Failed(w, n, CircuitBreakerError(<<"C", "i", "r", "c", "u", "i", "t", " ", "b", "r", "e", "a", "k", "e", "r", " ", "i", "s", " ", "O", "P", "E", "N", ".", " ", "S", "e", "r", "v", "i", "c", "e", " ", "i", "s", " ", "u", "n", "a", "v", "a", "i", "l", "a", "b", "l", "e", ".">>))

\* One poll of rateLimiter.waitForToken('github-api') and what follows it.
Poll(w, n, wt, t) ==
    LET r == tryConsume(w.buckets, "github-api", t)
        taken == TokensTaken(w.buckets, r.buckets, "github-api", t)
        wt1 == pollOnce([wt EXCEPT !.polls = @ + 1, !.consumed = @ + taken], r.ok, t)
        w1 == [w EXCEPT !.buckets = r.buckets]
    IN  IF wt1.pc = "sleep"
        THEN Out([w1 EXCEPT !.tasks[n].pc = "wait", !.tasks[n].wait = wt1], <<>>)
        ELSE IF wt1.result = "ok" THEN Execute(w1, n, t)
        ELSE Failed(w1, n, RateLimitError(<<"R", "a", "t", "e", " ", "l", "i", "m", "i", "t", " ", "e", "x", "c", "e", "e", "d", "e", "d", ":", " ", "m", "a", "x", "i", "m", "u", "m", " ", "w", "a", "i", "t", " ", "t", "i", "m", "e", " ", "r", "e", "a", "c", "h", "e", "d">>))

\* The request without the wait for a token.
RequestUnmetered(w, n, t) == Execute(w, n, t)

\* await rateLimiter.waitForToken('github-api'), from its start
Request(w, n, t) ==
    Poll(w, n, [WaitInit EXCEPT !.maxWait = defaultMaxWait, !.startTime = t], t)

\* getFileContent without the tests of the extension and the directory.
getFileContentUnfiltered(w, n, t) == Request(w, n, t)

\* getFileContent(owner, repo, path, branch) up to its first await.
getFileContent(w, n, t) ==
    IF isBinary(Tree[n].path) THEN SettleFile(w, n, FALSE)
    ELSE IF inSkipDir(Tree[n].path) THEN SettleFile(w, n, FALSE)
    ELSE Request(w, n, t)

\* getFilesRecursive(owner, repo, branch, currentPath, files) up to its
\* first await.
getFilesRecursive(w, n, t) ==
    IF Len(w.files) >= maxFilesPerScan THEN Settle(w, n, "capped")
    ELSE Request(w, n, t)

\* async (item) => ..., up to its first await
StartItem(w, n, t) ==
    IF Len(w.files) >= maxFilesPerScan THEN Settle(w, n, "capped")
    ELSE IF Tree[n].type = "file" THEN getFileContent(w, n, t)
    ELSE getFilesRecursive(w, n, t)

\* await Promise.all(batch.map(...)) for batch b of directory p
StartBatch(w, p, b) ==
    Out([w EXCEPT !.tasks[p].pc = "batch", !.tasks[p].batch = b],
        [i \in 1..Len(batchOf(p, b)) |-> Item(batchOf(p, b)[i])])

\* An item of the batch of directory p has settled: once all have, the next
\* batch starts or getFilesRecursive returns.
Advance(w, p) ==
    IF w.tasks[p].pc # "batch" THEN Out(w, <<>>)
    ELSE IF \E i \in 1..Len(batchOf(p, w.tasks[p].batch)) :
                w.tasks[batchOf(p, w.tasks[p].batch)[i]].pc # "done"
         THEN Out(w, <<>>)
    ELSE IF (w.tasks[p].batch + 1) * BatchSize < Len(Tree[p].entries)
         THEN StartBatch(w, p, w.tasks[p].batch + 1)
    ELSE Settle(w, p, "listed")

\* The request for path n has answered: a listing for a directory, the
\* content for a file.
Listed(w, n) ==
    IF Tree[n].entries = <<>> THEN Settle(w, n, "listed") ELSE StartBatch(w, n, 0)
Content(w, n) ==
    IF Tree[n].type = "file" /\ Tree[n].content # <<>>
    THEN IF Len(Tree[n].content) > maxFileSize THEN SettleFile(w, n, FALSE)
         ELSE SettleFile([w EXCEPT !.fhist.readable = @ \cup {n}], n, TRUE)
    ELSE SettleFile(w, n, FALSE)

\* One continuation runs.  A call that settles for getRepositoryFiles
\* settles scanPromise; one that rejects in a batch rejects the Promise.all
\* of the directory, into its catch block.
Continue(w, c, e) ==
    CASE c.op = "item" -> StartItem(w, c.n, e.now)
      [] c.op = "up" ->
           IF callerOf(w, c.n) = 0 THEN Out(Resolve(w, e), <<>>)
           ELSE Advance(w, callerOf(w, c.n))
      [] c.op = "thrown" ->
           IF callerOf(w, c.n) = 0 THEN Out(Reject(w, mapError(c.error)), <<>>)
           ELSE IF w.tasks[callerOf(w, c.n)].pc = "batch"
                THEN Caught(w, callerOf(w, c.n), c.error)
           ELSE Out(w, <<>>)

\* The queued continuations run, first in first out, until none is left.
Step(o, e) ==
    [w |-> Continue(o.w, Head(o.q), e).w,
     q |-> Tail(o.q) \o Continue(o.w, Head(o.q), e).q]
RECURSIVE Run(_, _)
Run(o, e) == IF o.q = <<>> THEN o.w ELSE Run(Step(o, e), e)

(***************************************************************************)
(* The repository scan as a state machine: handleScanRepository            *)
(* (index.ts), with the fetches it starts.                                 *)
(***************************************************************************)
othersFetch == <<calls, hist, rt, waits, lhist, sc, scans, an, srv>>

Become(w) ==
    /\ tasks' = w.tasks
    /\ files' = w.files
    /\ breaker' = w.breaker
    /\ buckets' = w.buckets
    /\ scanCall' = w.scanCall
    /\ fhist' = w.fhist

\* The path argument of the scan (0: none) and the file whose scan throws
\* (0: none).
PathArgs == {0, 2, 4, 8}
ScanFaults == {0, 2}
Moment(bad) == [now |-> now, bad |-> bad]

\* handleScanRepository(args) up to its await of the race: scanPromise runs
\* up to its first await and the timer is set.
ScanRepository(path, bad) ==
    /\ scanCall.pc = "idle"
    /\ LET started == [World EXCEPT !.scanCall =
                          [ScanCallInit EXCEPT !.pc = "running", !.path = path,
                                               !.start = now, !.timer = "pending",
                                               !.pipeline = "fetching"]]
       IN  \E w \in {Run(IF path # 0 THEN getFileContent(started, path, now)
                         ELSE getFilesRecursive(started, Root, now),
                         Moment(bad))} : Become(w)
    /\ UNCHANGED now
    /\ UNCHANGED othersFetch

\* A timer of waitForToken or of retry fires for path n: the next poll, or
\* the next attempt (or, the attempts used up, the throw after the loop).
TaskWake(n, bad) ==
    /\ \/ tasks[n].pc = "wait" /\ now >= tasks[n].wait.wakeAt
       \/ tasks[n].pc = "backoff" /\ now >= tasks[n].wakeAt
    /\ \E w \in {Run(IF tasks[n].pc = "wait"
                     THEN Poll(World, n, tasks[n].wait, now)
                     ELSE IF tasks[n].retry.attempt + 1 <= tasks[n].retry.maxRetries
                     THEN Out([World EXCEPT !.tasks[n].pc = "api", !.tasks[n].wakeAt = 0,
                                            !.tasks[n].retry.pc = "attempt",
                                            !.tasks[n].retry.attempt = @ + 1], <<>>)
                     ELSE Failed([World EXCEPT !.breaker = onFailure(breaker, now)], n,
                                 tasks[n].retry.lastError),
                     Moment(bad))} : Become(w)
    /\ UNCHANGED now
    /\ UNCHANGED othersFetch

\* The request for path n resolves: retry returns, the race is won,
\* onSuccess(), and the caller goes on with the data.
ApiOk(n, bad) ==
    /\ tasks[n].pc = "api"
    /\ LET w1 == [World EXCEPT !.breaker = onSuccess(breaker),
                               !.tasks[n].retry = RetryInit, !.tasks[n].start = 0]
       IN  \E w \in {Run(IF fnOf(World, n) = "getFilesRecursive"
                         THEN Listed(w1, n) ELSE Content(w1, n),
                         Moment(bad))} : Become(w)
    /\ UNCHANGED now
    /\ UNCHANGED othersFetch

\* The request for path n rejects with v: the catch block of retry, and
\* either its timer or its throw, onFailure() and the throw of execute.
ApiFail(n, v, jitter, bad) ==
    /\ tasks[n].pc = "api"
    /\ LET r == catchBlock([tasks[n].retry EXCEPT !.invocations = @ + 1], v, jitter)
       IN  \E w \in {Run(IF r.pc = "sleep"
                         THEN Out([World EXCEPT !.tasks[n].pc = "backoff",
                                                !.tasks[n].retry = r,
                                                !.tasks[n].wakeAt = now + r.delay], <<>>)
                         ELSE Failed([World EXCEPT !.breaker = onFailure(breaker, now)], n,
                                     r.thrown),
                         Moment(bad))} : Become(w)
    /\ UNCHANGED now
    /\ UNCHANGED othersFetch

\* The timer of execute fires before retry has settled: onFailure(),
\* TimeoutError is thrown; the request stays in flight.
BreakerTimeout(n, bad) ==
    /\ tasks[n].pc \in {"api", "backoff"}
    /\ now - tasks[n].start >= timeout
    /\ \E w \in {Run(Failed([World EXCEPT !.breaker = onFailure(breaker, now),
                                      !.tasks[n].orphan = TRUE], n,
                        TimeoutError(<<"O", "p", "e", "r", "a", "t", "i", "o", "n", " ", "t", "i", "m", "e", "d", " ", "o", "u", "t", " ", "a", "f", "t", "e", "r", " ", "3", "0", "0", "0", "0", "m", "s">>)),
                        Moment(bad))} : Become(w)
    /\ UNCHANGED now
    /\ UNCHANGED othersFetch

\* A request that lost the race settles and is counted by the breaker as a
\* success.
OrphanSettleCounted(n) ==
    /\ tasks[n].orphan
    /\ tasks' = [tasks EXCEPT ![n].orphan = FALSE]
    /\ breaker' = onSuccess(breaker)
    /\ UNCHANGED <<now, files, buckets, scanCall, fhist>>
    /\ UNCHANGED othersFetch

\* A request that lost the race settles: nothing reads its result.
OrphanSettle(n) ==
    /\ tasks[n].orphan
    /\ tasks' = [tasks EXCEPT ![n].orphan = FALSE]
    /\ UNCHANGED <<now, files, breaker, buckets, scanCall, fhist>>
    /\ UNCHANGED othersFetch

\* `Repository scan timed out after ${config.SCAN_TIMEOUT}ms`
scanTimedOut ==
    <<"R", "e", "p", "o", "s", "i", "t", "o", "r", "y", " ", "s", "c", "a", "n", " ", "t", "i", "m", "e", "d", " ", "o", "u", "t", " ", "a", "f", "t", "e", "r", " ", "4", "5", "0", "0", "0", "m", "s">>

\* The timer of handleScanRepository fires: the race rejects with
\* TimeoutError unless scanPromise has settled it.
ScanTimer ==
    /\ scanCall.timer = "pending"
    /\ now - scanCall.start >= ScanTimeout
    /\ LET c1 == [scanCall EXCEPT !.timer = "fired"]
       IN  scanCall' = race(c1, [c1 EXCEPT !.response = "error", !.report = <<>>,
                                           !.error = TimeoutError(scanTimedOut)])
    /\ UNCHANGED <<now, tasks, files, breaker, buckets, fhist>>
    /\ UNCHANGED othersFetch

\* The times the pending timers are due at.
Due ==
    {tasks[n].wait.wakeAt : n \in {m \in Node : tasks[m].pc = "wait"}}
    \cup {tasks[n].wakeAt : n \in {m \in Node : tasks[m].pc = "backoff"}}
    \cup {tasks[n].start + timeout : n \in {m \in Node : tasks[m].pc \in {"api", "backoff"}}}
    \cup {scanCall.start + ScanTimeout : c \in {d \in {scanCall} : d.timer = "pending"}}

\* Time passes, up to the next timer; no timer is late.
FetchTick ==
    /\ Due # {}
    /\ \A d \in Due : d > now
    /\ now' = CHOOSE d \in Due : \A d2 \in Due : d <= d2
    /\ UNCHANGED <<tasks, files, breaker, buckets, scanCall, fhist>>
    /\ UNCHANGED othersFetch

\* The breaker as earlier calls may have left it.
BreakerStarts ==
    { BreakerInit,
      [state |-> "CLOSED", failureCount |-> failureThreshold - 1, successCount |-> 0,
       lastFailureTime |-> ClockStart],
      [state |-> "OPEN", failureCount |-> failureThreshold, successCount |-> 0,
       lastFailureTime |-> ClockStart],
      [state |-> "HALF_OPEN", failureCount |-> 0, successCount |-> 1,
       lastFailureTime |-> ClockStart] }

InitFetch ==
    /\ now = ClockStart
    /\ breaker \in BreakerStarts
    /\ calls = [c \in Callers |-> CallInit]
    /\ hist = HistInit
    /\ rt = RetryInit
    /\ buckets = BucketsInit
    /\ waits = [c \in Waiters |-> WaitInit]
    /\ lhist = LimiterHistInit
    /\ sc = ScanInit
    /\ tasks = TasksInit
    /\ files = <<>>
    /\ scanCall = ScanCallInit
    /\ fhist = FetchHistInit
    /\ scans = detectionsIn
    /\ an = <<>>
    /\ srv = <<>>

NextFetch ==
    \/ \E path \in PathArgs, bad \in ScanFaults : ScanRepository(path, bad)
    \/ \E n \in Node, bad \in ScanFaults : TaskWake(n, bad)
    \/ \E n \in Node, bad \in ScanFaults : ApiOk(n, bad)
    \/ \E n \in Node, v \in ApiErrors, bad \in ScanFaults : ApiFail(n, v, 0, bad)
    \/ \E n \in Node, bad \in ScanFaults : BreakerTimeout(n, bad)
    \/ \E n \in Node : OrphanSettle(n)
    \/ ScanTimer
    \/ FetchTick

SpecFetch == InitFetch /\ [][NextFetch]_vars

\* C1: getRepositoryFiles called without a path returns at most
\* maxFilesPerScan files, whatever the order the fetches of a batch end in.
C1_FileCap ==
    (scanCall.path = 0 /\ scanCall.pipeline = "returned")
        => Len(scanCall.scanned) <= maxFilesPerScan

\* C5: when the listing of the repository root fails with anything but a
\* 404, getRepositoryFiles throws RepositoryAccessError, RateLimitError,
\* TimeoutError or GitHubAPIError and returns no file list.
C5_RootFailureAborts ==
    (/\ scanCall.path = 0
     /\ fhist.failed[Root] # undefined
     /\ ~isNotFound(fhist.failed[Root]))
        => /\ scanCall.pipeline = "threw"
           /\ scanCall.thrown.name \in {"RepositoryAccessError", "RateLimitError",
                                        "TimeoutError", "GitHubAPIError"}

\* The files whose own remote call failed.
FailedFiles == {n \in Node : Tree[n].type = "file" /\ fhist.failed[n] # undefined}

\* C6: a file whose fetch or scan fails is passed over and nothing is
\* thrown for it: the files returned are all those whose content was read,
\* and the results are those of every returned file with detections whose
\* scan did not throw.
C6_FileFailureSwallowed ==
    /\ FailedFiles # {} => scanCall.pipeline # "threw"
    /\ scanCall.pipeline = "returned" =>
         /\ \A n \in fhist.readable :
                \E i \in 1..Len(scanCall.scanned) : scanCall.scanned[i] = n
         /\ \A i \in 1..Len(scanCall.scanned) :
                (/\ Len(detectionsIn[scanCall.scanned[i]]) > 0
                 /\ scanCall.scanned[i] # scanCall.scanFault)
                    => \E k \in 1..Len(scanCall.results) :
                          /\ scanCall.results[k].file = Tree[scanCall.scanned[i]].path
                          /\ scanCall.results[k].detections
                                = detectionsIn[scanCall.scanned[i]]

\* One file could not be fetched and the report has the detections of
\* another.
C6_Witness ==
    /\ scanCall.response = "report"
    /\ FailedFiles # {}
    /\ \E i \in 1..Len(scanCall.scanned) :
          /\ scanCall.scanned[i] \notin FailedFiles
          /\ \E k \in 1..Len(scanCall.report.results) :
                scanCall.report.results[k].file = Tree[scanCall.scanned[i]].path

\* C7: once the timer of SCAN_TIMEOUT has fired with the pipeline unfinished
\* the call answers TimeoutError and no report; a call that answers a report
\* answers the report of the finished pipeline, made before the timer fired.
C7_ScanTimeout ==
    /\ (scanCall.timer = "fired" /\ (scanCall.pipeline = "fetching" \/ scanCall.late))
          => /\ scanCall.response = "error"
             /\ scanCall.error.name = "TimeoutError"
             /\ scanCall.report = <<>>
    /\ scanCall.response = "report"
          => /\ scanCall.pipeline = "returned"
             /\ ~scanCall.late
             /\ scanCall.report = reportOf(scanCall.scanned, scanCall.results)
    /\ scanCall.response = "error" => scanCall.report = <<>>

\* The timer has fired while a file was already fetched and another fetch
\* was in flight; the pipeline has then finished, and the answer is still
\* TimeoutError.
C7_Witness ==
    /\ scanCall.response = "error"
    /\ scanCall.error.name = "TimeoutError"
    /\ scanCall.late
    /\ scanCall.pipeline = "returned"
    /\ Len(scanCall.scanned) > 0

(***************************************************************************)
(* SecurityAnalyzer (index.ts): analyze, calculateRiskScore and            *)
(* determineComplianceStatus.  analyze reads of the results only the       *)
(* severity of each detection, so a result set is given by the number of   *)
(* detections of each severity over all its files.                         *)
(***************************************************************************)
MaxDetections == 21   \* largest result set analysed

Severities == {"critical", "high", "medium", "low"}

\* allDetections.filter((d) => d.severity === severity).length
countOf(results, severity) == results[severity]

\* Math.round of the fraction num / den, den > 0: the nearest integer, a
\* half going up.
MathRound(num, den) == (2 * num + den) \div (2 * den)

calculateRiskScoreUncapped(critical, high, medium, low) ==
    MathRound(critical * 10 + high * 5 + medium * 2 + low * 1, 1)
calculateRiskScore(critical, high, medium, low) ==
    LET criticalWeight == 10
        highWeight == 5
        mediumWeight == 2
        lowWeight == 1
        score == Min(100, critical * criticalWeight + high * highWeight
                            + medium * mediumWeight + low * lowWeight)
    IN  MathRound(score, 1)

determineComplianceStatusByScore(riskScore, critical, high) ==
    IF riskScore >= 80 THEN "non_compliant"
    ELSE IF riskScore >= 40 THEN "at_risk"
    ELSE "compliant"
determineComplianceStatus(riskScore, critical, high) ==
    IF critical > 0 \/ riskScore >= 80 THEN "non_compliant"
    ELSE IF high > 0 \/ riskScore >= 40 THEN "at_risk"
    ELSE "compliant"

analyze(results) ==
    LET criticalIssues == countOf(results, "critical")
        highIssues == countOf(results, "high")
        mediumIssues == countOf(results, "medium")
        lowIssues == countOf(results, "low")
        riskScore == calculateRiskScore(criticalIssues, highIssues, mediumIssues, lowIssues)
    IN  [riskScore |-> riskScore,
         complianceStatus |-> determineComplianceStatus(riskScore, criticalIssues, highIssues),
         criticalIssues |-> criticalIssues, highIssues |-> highIssues,
         mediumIssues |-> mediumIssues, lowIssues |-> lowIssues]

NoResults == [s \in Severities |-> 0]
AnalyzerInit == [results |-> NoResults, analysis |-> analyze(NoResults)]

othersAnalyze ==
    <<now, breaker, calls, hist, rt, buckets, waits, lhist, sc, tasks, files, scanCall, fhist,
      scans, srv>>

\* analyze(results) is called with the result set of the call before and
\* one more detection, of the given severity.
Analyze(severity) ==
    /\ an.results["critical"] + an.results["high"] + an.results["medium"]
          + an.results["low"] < MaxDetections
    /\ an' = [results |-> [an.results EXCEPT ![severity] = @ + 1],
              analysis |-> analyze([an.results EXCEPT ![severity] = @ + 1])]
    /\ UNCHANGED othersAnalyze

InitAnalyze ==
    /\ now = ClockStart
    /\ breaker = BreakerInit
    /\ calls = [c \in Callers |-> CallInit]
    /\ hist = HistInit
    /\ rt = RetryInit
    /\ buckets = BucketsInit
    /\ waits = [c \in Waiters |-> WaitInit]
    /\ lhist = LimiterHistInit
    /\ sc = ScanInit
    /\ tasks = TasksInit
    /\ files = <<>>
    /\ scanCall = ScanCallInit
    /\ fhist = FetchHistInit
    /\ scans = <<>>
    /\ an = AnalyzerInit
    /\ srv = <<>>

NextAnalyze == \E severity \in Severities : Analyze(severity)

SpecAnalyze == InitAnalyze /\ [][NextAnalyze]_vars

\* The weighted sum of a result set, before the cap.
Weighted(results) ==
    10 * results["critical"] + 5 * results["high"] + 2 * results["medium"]
        + results["low"]

C11_Value ==
    /\ an.analysis.riskScore = Min(100, Weighted(an.results))
    /\ an.analysis.riskScore \in 0..100
C11_Step == an'.analysis.riskScore >= an.analysis.riskScore

\* C11: riskScore is min(100, 10*critical + 5*high + 2*medium + 1*low) of
\* the detection counts, it lies in 0..100, and a result set with one more
\* detection never has a lower riskScore.
C11_RiskScore == [][C11_Step]_vars /\ []C11_Value

\* A result set whose weighted sum is above 100 has been analysed.
C11_Witness == Weighted(an.results) > 100 /\ an.analysis.riskScore = 100

\* C12: complianceStatus is non_compliant exactly when critical > 0 or
\* riskScore >= 80, otherwise at_risk exactly when high > 0 or
\* riskScore >= 40, otherwise compliant.
C12_Compliance ==
    /\ an.analysis.complianceStatus = "non_compliant"
          <=> (an.results["critical"] > 0 \/ an.analysis.riskScore >= 80)
    /\ an.analysis.complianceStatus = "at_risk"
          <=> /\ ~(an.results["critical"] > 0 \/ an.analysis.riskScore >= 80)
              /\ (an.results["high"] > 0 \/ an.analysis.riskScore >= 40)
    /\ an.analysis.complianceStatus = "compliant"
          <=> /\ ~(an.results["critical"] > 0 \/ an.analysis.riskScore >= 80)
              /\ ~(an.results["high"] > 0 \/ an.analysis.riskScore >= 40)

\* One critical detection among detections that weigh less than 40
\* together: the status is non_compliant.
C12_Witness ==
    /\ an.results["critical"] = 1
    /\ an.analysis.riskScore < 40
    /\ an.analysis.complianceStatus = "non_compliant"

(***************************************************************************)
(* The server process (index.ts): the handler of tool calls and            *)
(* setupGracefulShutdown.  A signal handler runs as one stretch: it sets   *)
(* isShuttingDown and awaits Promise.race of a 30 s timer and              *)
(* Promise.resolve(); the race settles on the microtask queue, before any  *)
(* timer or input is handled, and process.exit(0) follows.                 *)
(***************************************************************************)
NumToolCalls == 4   \* tool calls a client makes

ToolCalls == 1..NumToolCalls
Signals == {"SIGTERM", "SIGINT"}

ToolCallInit == [pc |-> "none", response |-> "none", duringShutdown |-> FALSE]
ServerInit ==
    [isShuttingDown |-> FALSE, exited |-> FALSE, exitCode |-> 0, signal |-> "none",
     toolCalls |-> [o \in ToolCalls |-> ToolCallInit]]

othersServer ==
    <<now, breaker, calls, hist, rt, buckets, waits, lhist, sc, tasks, files, scanCall, fhist,
      scans, an>>

\* A tool call arrives: the CallToolRequest handler up to the await of the
\* tool's handler, or its answer when the server is shutting down.
CallTool(o) ==
    /\ ~srv.exited
    /\ srv.toolCalls[o].pc = "none"
    /\ srv' = [srv EXCEPT !.toolCalls[o] =
                  IF srv.isShuttingDown
                  THEN [pc |-> "answered", response |-> "SHUTTING_DOWN",
                        duringShutdown |-> TRUE]
                  ELSE [pc |-> "running", response |-> "none", duringShutdown |-> FALSE]]
    /\ UNCHANGED othersServer

\* The tool's handler settles and the call is answered.
ToolReturns(o) ==
    /\ ~srv.exited
    /\ srv.toolCalls[o].pc = "running"
    /\ srv' = [srv EXCEPT !.toolCalls[o].pc = "answered",
                          !.toolCalls[o].response = "result"]
    /\ UNCHANGED othersServer

\* process.exit(code): the calls still running are never answered.
exit(s, code) ==
    [s EXCEPT !.exited = TRUE, !.exitCode = code,
              !.toolCalls = [o \in ToolCalls |->
                                IF s.toolCalls[o].pc = "running"
                                THEN [s.toolCalls[o] EXCEPT !.pc = "dropped"]
                                ELSE s.toolCalls[o]]]

\* shutdown(signal), run by process.on(signal, ...)
Shutdown(signal) ==
    /\ ~srv.exited
    /\ srv' = IF srv.isShuttingDown THEN srv
              ELSE exit([srv EXCEPT !.isShuttingDown = TRUE, !.signal = signal], 0)
    /\ UNCHANGED othersServer

InitServer ==
    /\ now = ClockStart
    /\ breaker = BreakerInit
    /\ calls = [c \in Callers |-> CallInit]
    /\ hist = HistInit
    /\ rt = RetryInit
    /\ buckets = BucketsInit
    /\ waits = [c \in Waiters |-> WaitInit]
    /\ lhist = LimiterHistInit
    /\ sc = ScanInit
    /\ tasks = TasksInit
    /\ files = <<>>
    /\ scanCall = ScanCallInit
    /\ fhist = FetchHistInit
    /\ scans = <<>>
    /\ an = <<>>
    /\ srv = ServerInit

NextServer ==
    \/ \E o \in ToolCalls : CallTool(o)
    \/ \E o \in ToolCalls : ToolReturns(o)
    \/ \E signal \in Signals : Shutdown(signal)

SpecServer == InitServer /\ [][NextServer]_vars

\* C17: after SIGTERM or SIGINT every new tool call is answered
\* SHUTTING_DOWN without its tool being run, and the calls in flight when
\* the signal came are answered before the process exits.
C17_GracefulShutdown ==
    /\ \A o \in ToolCalls :
          srv.toolCalls[o].duringShutdown => srv.toolCalls[o].response = "SHUTTING_DOWN"
    /\ srv.exited => \A o \in ToolCalls : srv.toolCalls[o].pc # "dropped"

\* The paths whose request to the API is sent in a step.
Sent == {n \in Node : tasks[n].pc # "api" /\ tasks'[n].pc = "api"}

C18_Step ==
    Sent # {} =>
        /\ buckets'["github-api"].present
        /\ buckets'["github-api"].lastRefill = now
        /\ TokensTaken(buckets, buckets', "github-api", now) >= Cardinality(Sent)
        /\ Admits(breaker, now)
        /\ breaker'.state # "OPEN"
        /\ \A n \in Sent : tasks'[n].retry.pc = "attempt" /\ tasks'[n].start = now

\* C18: every request of the fetcher to the API, a listing or a content
\* fetch, is sent in a stretch of code that has first taken a token of the
\* key github-api, one for each request, and then passed the one circuit
\* breaker, which has admitted it and starts the retry-wrapped call.
C18_GatedCalls == [][C18_Step]_vars

\* Two requests are in flight, sent in one stretch of code, and two tokens
\* are gone from the bucket.
C18_Witness ==
    /\ Cardinality({n \in Node : tasks[n].pc = "api"}) >= 2
    /\ buckets["github-api"].present
    /\ buckets["github-api"].tokens <= (capacity - 2) * TokenScale
(***************************************************************************)
(* Claims on the fetch: what is filtered, what each call takes from the    *)
(* limiter, and what goes on after a timeout.                              *)
(***************************************************************************)
\* The file entries the admission filter is stated to reject: the path ends
\* in a binary extension or lies under an excluded directory.
Filtered ==
    {n \in Node : Tree[n].type = "file"
                    /\ (isBinary(Tree[n].path) \/ inSkipDir(Tree[n].path))}

\* The elements of a sequence.
Range(s) == {s[i] : i \in 1..Len(s)}

C24_Step ==
    /\ \A n \in Filtered :
          /\ tasks'[n].pc \in {"idle", "done"}
          /\ tasks'[n].result \in {"none", "null", "capped"}
          /\ tasks'[n].wait = WaitInit
          /\ tasks'[n].retry = RetryInit
          /\ tasks'[n].start = 0
          /\ ~tasks'[n].orphan
          /\ fhist'.failed[n] = undefined
          /\ n \notin fhist'.readable
          /\ n \notin Range(files')
          /\ n \notin Range(scanCall'.scanned)
          /\ \A i \in 1..Len(scanCall'.results) : scanCall'.results[i].file # Tree[n].path
    /\ (scanCall.pc = "idle" /\ scanCall'.path \in Filtered) =>
          /\ buckets' = buckets
          /\ breaker' = breaker
          /\ files' = <<>>
          /\ scanCall'.pipeline = "returned"
          /\ scanCall'.response = "report"
          /\ scanCall'.report.totalFilesScanned = 0

\* C24: a file whose path ends in a binary extension or lies under an
\* excluded directory is turned down by getFileContent before its first
\* await: its call never waits for a token, never sends a request and never
\* enters the breaker, the file is in no list of files and in no report, and
\* a scan of such a path alone leaves the limiter and the breaker as they
\* were and reports no file.
C24_FilteredBeforeFetch == [][C24_Step]_vars

\* A walk of the repository has come to the binary file and to the file
\* under vendor/ and has turned both down.
C24_Witness ==
    /\ scanCall.pc # "idle"
    /\ scanCall.path = 0
    /\ Filtered # {}
    /\ \A n \in Filtered : tasks[n].pc = "done" /\ tasks[n].result = "null"
    /\ \E n \in Filtered : isBinary(Tree[n].path)
    /\ \E n \in Filtered : inSkipDir(Tree[n].path)

\* The calls that get past waitForToken in this step: each goes on to
\* execute(), which either invokes retry (the request is sent) or rejects
\* with CircuitBreakerError.
Rejected(n) ==
    /\ fhist.failed[n] = undefined
    /\ fhist'.failed[n].name = "CircuitBreakerError"
PastLimiter ==
    {n \in Node : /\ tasks[n].pc \in {"idle", "wait"}
                  /\ tasks'[n].pc = "api" \/ Rejected(n)}

C26_Step ==
    /\ IF buckets' = buckets
       THEN PastLimiter = {}
       ELSE TokensTaken(buckets, buckets', "github-api", now) = Cardinality(PastLimiter)
    /\ \A n \in Node :
          Rejected(n) =>
              /\ tasks[n].pc \in {"idle", "wait"}
              /\ breaker'.state = "OPEN"
              /\ now - breaker'.lastFailureTime < resetTimeout

\* C26: the tokens taken from the bucket of 'github-api' in a step are one
\* for each call that gets past waitForToken in it, whether execute() then
\* sends the request or the OPEN breaker rejects the call; no step of a call
\* that is already inside execute() (a request in flight, a backoff of
\* retry) takes a token.
C26_OneTokenPerCall == [][C26_Step]_vars

\* A call has been rejected by the OPEN breaker after its token was taken:
\* the bucket is a token short.
C26_Witness ==
    /\ \E n \in Node : fhist.failed[n].name = "CircuitBreakerError"
    /\ buckets["github-api"].present
    /\ buckets["github-api"].lastRefill = now
    /\ buckets["github-api"].tokens <= (capacity - 1) * TokenScale

\* The moment the timer of the scan is due.
ScanDeadline == scanCall.start + ScanTimeout

\* The timer of execute() wins the race of the call for path n in this step.
TimesOut(n) ==
    /\ tasks[n].pc \in {"api", "backoff"}
    /\ fhist'.failed[n] # fhist.failed[n]
    /\ fhist'.failed[n].name = "TimeoutError"

C30_Step ==
    /\ (scanCall.timer = "pending" /\ scanCall'.timer = "fired") =>
          /\ tasks' = tasks
          /\ files' = files
          /\ buckets' = buckets
          /\ breaker' = breaker
          /\ scanCall.pipeline = "fetching" =>
                /\ scanCall'.pipeline = "fetching"
                /\ scanCall'.error.name = "TimeoutError"
    /\ \A n \in Node :
          /\ TimesOut(n) =>
                /\ tasks'[n].orphan
                /\ breaker'.failureCount = breaker.failureCount + 1
          /\ (tasks[n].orphan /\ ~tasks'[n].orphan) =>
                /\ breaker' = breaker
                /\ buckets' = buckets
                /\ files' = files
                /\ scanCall' = scanCall
                /\ tasks'[n].pc = tasks[n].pc
                /\ tasks'[n].result = tasks[n].result

\* C30: the timer of the scan, when it fires, ends the call with TimeoutError
\* and leaves the fetch as it is, calls in flight included; the timer of
\* execute(), when it wins, counts a failure and leaves the request in
\* flight, and when that request settles later nothing changes in the
\* breaker, the limiter, the files or the call that had awaited it.
C30_TimeoutsCancelNothing == [][C30_Step]_vars

\* The scan has been answered with TimeoutError and, after that, the fetch has
\* taken a token, sent a request and counted a failure in the breaker; a
\* request that lost the race of execute() is still in flight.
C30_Witness ==
    /\ scanCall.timer = "fired"
    /\ scanCall.response = "error"
    /\ scanCall.error.name = "TimeoutError"
    /\ \E n \in Node : tasks[n].pc = "api" /\ tasks[n].start > ScanDeadline
    /\ buckets["github-api"].present
    /\ buckets["github-api"].lastRefill > ScanDeadline
    /\ breaker.lastFailureTime > ScanDeadline
    /\ \E n \in Node : tasks[n].orphan

====
